---- MODULE Spec2Model ----
(***************************************************************************)
(* Account-state reconciliation and change propagation of the dashboard   *)
(* backend: AccountsFileService (registry load, status derivation, diff,  *)
(* rate-limit timer), the event wiring of the server, and the subscriber  *)
(* fan-out the wiring publishes into.                                      *)
(*                                                                         *)
(* Optional values (TypeScript `x?: T`, `T | undefined`, `T | null`) are   *)
(* sequences of length at most one: <<>> is undefined/null, <<v>> is v.    *)
(* Arrays are sequences; the code's 0-based index i is position i + 1.     *)
(***************************************************************************)
EXTENDS Integers, Sequences, FiniteSets, TLC

\* ------------------------------------------------------------------ bounds

\* Horizon of the clock (Date.now()): time runs 0..MaxTime.
MaxTime == 2

\* Longest account list handed to calculateDiffs in SpecFn.
MaxLen == 2

\* SpecBroadcast: connections that may be open at once, events the services
\* emit in a run, and messages a connection buffers before it is dropped.
MaxSubscribers == 2

MaxEvents == 2

MaxQueue == 2

\* SpecWatcher: raw write events counted in one burst.
MaxWrites == 3

\* Longest list of model entries one quota response carries in SpecFn.
MaxModels == 2

\* SpecOverlap: calls of fetchAllQuotas made in a run.
MaxCycles == 2

\* SpecInterceptor: calls of onRequestComplete made in a run.
MaxCalls == 2

\* ------------------------------------------------------------------ values

Emails == {"a", "b"}

Families == {"claude", "gemini"}

Statuses == {"available", "rate_limited_claude", "rate_limited_gemini", "rate_limited_all"}

None == <<>>

Some(v) == <<v>>

\* JavaScript truthiness of an optional number: undefined and 0 are falsy.
Truthy(opt) == opt # None /\ opt[1] # 0

\* `a ?? b` on optional values: b only when a is undefined/null.
\* Mutant: `||` in place of `??`, so that an index of 0 falls through.
Nullish_or(opt, fallback) == IF Truthy(opt) THEN opt ELSE fallback

Nullish(opt, fallback) == IF opt = None THEN fallback ELSE opt

Max(a, b) == IF a >= b THEN a ELSE b

Range(s) == {s[i] : i \in 1..Len(s)}

\* ------------------------------------------------- AccountStateBuilder

\* Mutant: the builder compares with < where the timer's rule amounts to <=.
RateLimitAtLoad_strict(resetTime, t) ==
    [resetTime |-> resetTime,
     timeUntilReset |-> Max(0, resetTime - t),
     isExpired |-> resetTime < t]

\* RateLimitInfo built from a reset epoch at time t (processAccounts).
RateLimitAtLoad(resetTime, t) ==
    [resetTime |-> resetTime,
     timeUntilReset |-> Max(0, resetTime - t),
     isExpired |-> resetTime <= t]

\* Mutant: a family counts as limited whenever its info is present.
claudeLimited_present(account) == account.rateLimits.claude # None

claudeLimited(account) ==
    account.rateLimits.claude # None /\ ~account.rateLimits.claude[1].isExpired

geminiLimited(account) ==
    account.rateLimits.gemini # None /\ ~account.rateLimits.gemini[1].isExpired

calculateAccountStatus(account) ==
    IF claudeLimited(account) /\ geminiLimited(account) THEN "rate_limited_all"
    ELSE IF claudeLimited(account) THEN "rate_limited_claude"
    ELSE IF geminiLimited(account) THEN "rate_limited_gemini"
    ELSE "available"

\* One element of data.accounts.map(...): the LocalAccount of raw record `raw`
\* at 0-based position `index` of file `data`, built at time t.
processAccount(raw, index, data, t) ==
    LET claudeResetTime == raw.rateLimitResetTimes.claude
        geminiResetTime == raw.rateLimitResetTimes.gemini
        claudeRateLimit == IF Truthy(claudeResetTime)
                           THEN Some(RateLimitAtLoad(claudeResetTime[1], t))
                           ELSE None
        geminiRateLimit == IF Truthy(geminiResetTime)
                           THEN Some(RateLimitAtLoad(geminiResetTime[1], t))
                           ELSE None
        account == [email |-> raw.email,
                    projectId |-> raw.projectId,
                    managedProjectId |-> raw.managedProjectId,
                    addedAt |-> raw.addedAt,
                    lastUsed |-> raw.lastUsed,
                    isActive |-> Some(index) = data.activeIndex,
                    activeForClaude |->
                        Some(index) = Nullish(data.activeIndexByFamily.claude, data.activeIndex),
                    activeForGemini |->
                        Some(index) = Nullish(data.activeIndexByFamily.gemini, data.activeIndex),
                    status |-> "available",
                    rateLimits |-> [claude |-> claudeRateLimit, gemini |-> geminiRateLimit]]
    IN  [account EXCEPT !.status = calculateAccountStatus(account)]

processAccounts(data, t) ==
    [i \in 1..Len(data.accounts) |-> processAccount(data.accounts[i], i - 1, data, t)]

\* ------------------------------------------------------------ DiffEngine

\* JSON.stringify of a RateLimitInfo: its members in insertion order.
StringifyInfo(info) ==
    << <<"resetTime", info.resetTime>>,
       <<"timeUntilReset", info.timeUntilReset>>,
       <<"isExpired", info.isExpired>> >>

\* A member whose value is undefined is left out of the JSON text.
Member(key, opt) == IF opt = None THEN <<>> ELSE << <<key, opt[1]>> >>

StringifyRateLimits(rl) ==
    (IF rl.claude = None THEN <<>> ELSE << <<"claude", StringifyInfo(rl.claude[1])>> >>)
    \o (IF rl.gemini = None THEN <<>> ELSE << <<"gemini", StringifyInfo(rl.gemini[1])>> >>)

\* Mutant: a shallow comparison that leaves the nested rateLimits out.
Stringify_shallow(a) ==
    << <<"email", a.email>> >>
    \o Member("projectId", a.projectId)
    \o Member("managedProjectId", a.managedProjectId)
    \o << <<"addedAt", a.addedAt>>,
          <<"lastUsed", a.lastUsed>>,
          <<"isActive", a.isActive>>,
          <<"activeForClaude", a.activeForClaude>>,
          <<"activeForGemini", a.activeForGemini>>,
          <<"status", a.status>> >>

\* JSON.stringify of a LocalAccount, as the list of its (key, value) members in
\* the insertion order processAccounts gives every account.
Stringify(a) ==
    << <<"email", a.email>> >>
    \o Member("projectId", a.projectId)
    \o Member("managedProjectId", a.managedProjectId)
    \o << <<"addedAt", a.addedAt>>,
          <<"lastUsed", a.lastUsed>>,
          <<"isActive", a.isActive>>,
          <<"activeForClaude", a.activeForClaude>>,
          <<"activeForGemini", a.activeForGemini>>,
          <<"status", a.status>>,
          <<"rateLimits", StringifyRateLimits(a.rateLimits)>> >>

\* new Map(list.map(a => [a.email, a])): keys in order of first insertion ...
RECURSIVE MapKeys(_)
MapKeys(list) ==
    IF list = <<>> THEN <<>>
    ELSE LET front == MapKeys(SubSeq(list, 1, Len(list) - 1))
             email == list[Len(list)].email
         IN  IF email \in Range(front) THEN front ELSE Append(front, email)

MapHas(list, email) == \E i \in 1..Len(list) : list[i].email = email

\* ... and the value of a key is the last entry inserted under it.
MapGet(list, email) ==
    list[CHOOSE i \in 1..Len(list) :
            /\ list[i].email = email
            /\ \A j \in (i + 1)..Len(list) : list[j].email # email]

\* Mutant: the previous state is looked up with previous.find(...), the first
\* entry under the email, while the current one comes from the Map.
RECURSIVE DiffCurrent_find(_, _, _)
DiffCurrent_find(keys, previous, current) ==
    IF keys = <<>> THEN <<>>
    ELSE LET email == Head(keys)
             account == MapGet(current, email)
             rest == DiffCurrent_find(Tail(keys), previous, current)
             first == CHOOSE i \in 1..Len(previous) :
                        /\ previous[i].email = email
                        /\ \A j \in 1..(i - 1) : previous[j].email # email
         IN  IF ~MapHas(previous, email)
             THEN <<[op |-> "add", email |-> email, account |-> account]>> \o rest
             ELSE IF Stringify(previous[first]) # Stringify(account)
             THEN <<[op |-> "update", email |-> email, changes |-> account]>> \o rest
             ELSE rest

\* Mutant: an update carries the state the account had, not the one it has.
RECURSIVE DiffCurrent_oldState(_, _, _)
DiffCurrent_oldState(keys, previous, current) ==
    IF keys = <<>> THEN <<>>
    ELSE LET email == Head(keys)
             account == MapGet(current, email)
             rest == DiffCurrent_oldState(Tail(keys), previous, current)
         IN  IF ~MapHas(previous, email)
             THEN <<[op |-> "add", email |-> email, account |-> account]>> \o rest
             ELSE IF Stringify(MapGet(previous, email)) # Stringify(account)
             THEN <<[op |-> "update", email |-> email,
                     changes |-> MapGet(previous, email)]>> \o rest
             ELSE rest

\* The loop over currMap: an add or an update per key, in key order.
RECURSIVE DiffCurrent(_, _, _)
DiffCurrent(keys, previous, current) ==
    IF keys = <<>> THEN <<>>
    ELSE LET email == Head(keys)
             account == MapGet(current, email)
             rest == DiffCurrent(Tail(keys), previous, current)
         IN  IF ~MapHas(previous, email)
             THEN <<[op |-> "add", email |-> email, account |-> account]>> \o rest
             ELSE IF Stringify(MapGet(previous, email)) # Stringify(account)
             THEN <<[op |-> "update", email |-> email, changes |-> account]>> \o rest
             ELSE rest

\* Mutant: accounts that left the list are not reported.
DiffRemoved_none(keys, current) == <<>>

\* The loop over prevMap.keys(): a remove per key that currMap lacks.
RECURSIVE DiffRemoved(_, _)
DiffRemoved(keys, current) ==
    IF keys = <<>> THEN <<>>
    ELSE LET rest == DiffRemoved(Tail(keys), current)
         IN  IF ~MapHas(current, Head(keys))
             THEN <<[op |-> "remove", email |-> Head(keys)]>> \o rest
             ELSE rest

calculateDiffs(previous, current) ==
    DiffCurrent(MapKeys(current), previous, current)
    \o DiffRemoved(MapKeys(previous), current)

\* ------------------------------------------------------ AccountsFileService

VARIABLES
    now,                \* Date.now()
    processedAccounts,  \* this.processedAccounts
    lastData,           \* this.lastData (optional RawAccountsFile)
    watcher,            \* this.watcher is set
    updateInterval,     \* this.updateInterval is set
    emitted,            \* the events the last handler run emitted, in order; a
                        \* 'rate_limit_cleared' event holds `view`, the list
                        \* getAccounts() returns to a listener at that moment
    lastOp,             \* the last handler run: which, what a load found at the path,
                        \* the console level it used, whether a load found accounts held
    history,            \* per list position and family, since the list was last
                        \* rebuilt: whether the family was loaded rate-limited, and
                        \* how many 'rate_limit_cleared' events were emitted for it
    statusPending       \* emails whose status the timer changed since the last diff
                        \* pass without an account update being broadcast for them

\* Mutant: the first account is reported as the active one.
getStats_first(accounts, t) ==
    [totalAccounts |-> Len(accounts),
     availableAccounts |-> Len(SelectSeq(accounts, LAMBDA a : a.status = "available")),
     rateLimitedAccounts |-> Len(SelectSeq(accounts, LAMBDA a : a.status # "available")),
     activeAccount |-> IF accounts = <<>> THEN None ELSE Some(accounts[1].email),
     lastUpdate |-> t]

\* getStats(); `active?.email || null` is the email, emails being non-empty.
getStats(accounts, t) ==
    LET active == SelectSeq(accounts, LAMBDA a : a.isActive)
    IN  [totalAccounts |-> Len(accounts),
         availableAccounts |-> Len(SelectSeq(accounts, LAMBDA a : a.status = "available")),
         rateLimitedAccounts |-> Len(SelectSeq(accounts, LAMBDA a : a.status # "available")),
         activeAccount |-> IF active = <<>> THEN None ELSE Some(active[1].email),
         lastUpdate |-> t]

\* Mutant: the timer derives isExpired from the countdown it found.
RateLimitAtTick_stale(info, t) ==
    [info EXCEPT !.timeUntilReset = Max(0, info.resetTime - t),
                 !.isExpired = (info.timeUntilReset = 0)]

\* The RateLimitInfo of one family after the timer recomputed it at time t.
RateLimitAtTick(info, t) ==
    LET newTimeUntilReset == Max(0, info.resetTime - t)
    IN  [info EXCEPT !.timeUntilReset = newTimeUntilReset,
                     !.isExpired = (newTimeUntilReset = 0)]

\* updateRateLimitTimers, loop body, first block: the account after its claude
\* info was recomputed (status not yet).
TickClaude(account, t) ==
    IF account.rateLimits.claude # None
    THEN [account EXCEPT !.rateLimits.claude = Some(RateLimitAtTick(account.rateLimits.claude[1], t))]
    ELSE account

\* ... second block: after its gemini info was recomputed as well.
TickGemini(account, t) ==
    IF account.rateLimits.gemini # None
    THEN [account EXCEPT !.rateLimits.gemini = Some(RateLimitAtTick(account.rateLimits.gemini[1], t))]
    ELSE account

\* ... end of the loop body: status recomputed from the two infos.
TickAccount(account, t) ==
    LET timed == TickGemini(TickClaude(account, t), t)
    IN  [timed EXCEPT !.status = calculateAccountStatus(timed)]

\* Mutant: the notification guard forgets wasExpired.
ClaudeFlipped_noWas(account, t) ==
    /\ account.rateLimits.claude # None
    /\ TickClaude(account, t).rateLimits.claude[1].isExpired

\* !wasExpired && isExpired, per family.
ClaudeFlipped(account, t) ==
    /\ account.rateLimits.claude # None
    /\ ~account.rateLimits.claude[1].isExpired
    /\ TickClaude(account, t).rateLimits.claude[1].isExpired

GeminiFlipped(account, t) ==
    /\ account.rateLimits.gemini # None
    /\ ~account.rateLimits.gemini[1].isExpired
    /\ TickGemini(account, t).rateLimits.gemini[1].isExpired

\* The list a listener reads while the loop is at position i: the accounts
\* before i are done, account i is `current`, the rest are not yet visited.
ViewDuring(accounts, i, current, t) ==
    [j \in 1..Len(accounts) |->
        IF j < i THEN TickAccount(accounts[j], t)
        ELSE IF j = i THEN current
        ELSE accounts[j]]

\* The 'rate_limit_cleared' events of the loop from position i on, in emission
\* order. `at` is the loop position at the emission and `view` the list a
\* listener reads then; the payload of the code's event is {email, family}.
RECURSIVE TickEvents(_, _, _)
TickEvents(accounts, i, t) ==
    IF i > Len(accounts) THEN <<>>
    ELSE LET account == accounts[i]
             afterClaude == TickClaude(account, t)
             afterGemini == TickGemini(afterClaude, t)
         IN  (IF ClaudeFlipped(account, t)
              THEN <<[type |-> "rate_limit_cleared", email |-> account.email, family |-> "claude",
                      at |-> i, view |-> ViewDuring(accounts, i, afterClaude, t)]>>
              ELSE <<>>)
             \o (IF GeminiFlipped(account, t)
                 THEN <<[type |-> "rate_limit_cleared", email |-> account.email, family |-> "gemini",
                         at |-> i, view |-> ViewDuring(accounts, i, afterGemini, t)]>>
                 ELSE <<>>)
             \o TickEvents(accounts, i + 1, t)

\* updateRateLimitTimers: the list after the loop, the events emitted during
\* it, and the value returned.
updateRateLimitTimers(accounts, t) ==
    LET after == [i \in 1..Len(accounts) |-> TickAccount(accounts[i], t)]
        events == TickEvents(accounts, 1, t)
    IN  [accounts |-> after,
         events |-> events,
         hasChanges |-> \/ events # <<>>
                        \/ \E i \in 1..Len(accounts) : after[i].status # accounts[i].status]

\* Mutant: the timer announces 'rate_limits_updated' on every tick.
RateLimitUpdater_always(accounts, t) ==
    LET r == updateRateLimitTimers(accounts, t)
    IN  [accounts |-> r.accounts,
         emitted |-> r.events \o <<[type |-> "rate_limits_updated", accounts |-> r.accounts]>>]

\* The setInterval callback of startRateLimitUpdater.
RateLimitUpdater(accounts, t) ==
    LET r == updateRateLimitTimers(accounts, t)
    IN  [accounts |-> r.accounts,
         emitted |-> r.events \o
                     (IF r.hasChanges
                      THEN <<[type |-> "rate_limits_updated", accounts |-> r.accounts]>>
                      ELSE <<>>)]

\* How many of `events` are 'rate_limit_cleared' for the account at position i
\* and family f.
ClearedAt(events, i, f) ==
    Cardinality({k \in 1..Len(events) :
        /\ events[k].type = "rate_limit_cleared"
        /\ events[k].at = i
        /\ events[k].family = f})

\* What loadAccountsFile finds at ACCOUNTS_FILE_PATH.
FileKinds == {"absent", "invalid_json", "no_accounts", "valid"}

\* Mutant: the load announces the new list before the operations on it.
Loaded_loadedFirst(data, processed, previousAccounts) ==
    LET diffs == calculateDiffs(previousAccounts, processed)
    IN  [processedAccounts |-> processed,
         lastData |-> Some(data),
         emitted |-> <<[type |-> "accounts_loaded", accounts |-> processed]>>
                     \o (IF Len(diffs) > 0
                         THEN <<[type |-> "accounts_changed", diffs |-> diffs]>>
                         ELSE <<>>),
         log |-> "log"]

\* loadAccountsFile from the assignment of this.processedAccounts on: the new
\* list is installed, then diffed against the previous one, then announced.
Loaded(data, processed, previousAccounts) ==
    LET diffs == calculateDiffs(previousAccounts, processed)
    IN  [processedAccounts |-> processed,
         lastData |-> Some(data),
         emitted |-> (IF Len(diffs) > 0
                      THEN <<[type |-> "accounts_changed", diffs |-> diffs]>>
                      ELSE <<>>)
                     \o <<[type |-> "accounts_loaded", accounts |-> processed]>>,
         log |-> "log"]

\* Mutant: content without a usable accounts list is read as an empty list
\* (`data.accounts ?? []`) instead of throwing.
loadAccountsFile_lenient(file, accounts, data, t) ==
    IF file.kind = "absent"
    THEN [processedAccounts |-> <<>>,
          lastData |-> None,
          emitted |-> <<[type |-> "accounts_loaded", accounts |-> <<>>]>>,
          log |-> "warn"]
    ELSE IF file.kind = "invalid_json"
    THEN [processedAccounts |-> accounts, lastData |-> data, emitted |-> <<>>, log |-> "error"]
    ELSE Loaded(file.data, processAccounts(file.data, t), accounts)

\* Mutant: a missing file is handled like an unreadable one (state kept,
\* nothing emitted).
loadAccountsFile_absentKept(file, accounts, data, t) ==
    IF file.kind \in {"absent", "invalid_json", "no_accounts"}
    THEN [processedAccounts |-> accounts, lastData |-> data, emitted |-> <<>>,
          log |-> IF file.kind = "absent" THEN "warn" ELSE "error"]
    ELSE Loaded(file.data, processAccounts(file.data, t), accounts)

\* loadAccountsFile, given what is at the path (`file.kind`; `file.data` is the
\* parsed content of a valid file), this.processedAccounts and this.lastData:
\* the two fields afterwards, the events emitted and the console level used.
\*   absent        existsSync is false
\*   invalid_json  JSON.parse throws
\*   no_accounts   JSON.parse returns a value whose `accounts` cannot be mapped:
\*                 processAccounts throws before the assignment
loadAccountsFile(file, accounts, data, t) ==
    IF file.kind = "absent"
    THEN [processedAccounts |-> <<>>,
          lastData |-> None,
          emitted |-> <<[type |-> "accounts_loaded", accounts |-> <<>>]>>,
          log |-> "warn"]
    ELSE IF file.kind \in {"invalid_json", "no_accounts"}
    THEN [processedAccounts |-> accounts,
          lastData |-> data,
          emitted |-> <<>>,
          log |-> "error"]
    ELSE LET previousAccounts == accounts
         IN  Loaded(file.data, processAccounts(file.data, t), previousAccounts)

\* ------------------------------------------------------------ event wiring

\* The listeners the server attaches to the services: each is the list of
\* calls it makes on wsManager.
OnAccountsLoaded(accounts, stats, t) ==
    <<[method |-> "broadcastNow",
       arg |-> [type |-> "initial",
                data |-> [accounts |-> accounts, stats |-> stats],
                timestamp |-> t]]>>

\* Mutant: the interceptor's report is swallowed before it reaches wsManager.
safeBroadcast_silent(message, t) == <<>>

\* The interceptor's broadcast of a proxied call; wsManagerRef is set before
\* the first request, and a throw of broadcastNow is caught and only logged.
safeBroadcast(message, t) ==
    <<[method |-> "broadcastNow",
       arg |-> [type |-> "new_call", data |-> message, timestamp |-> t]]>>

\* Mutant: the listener hands the operations to the broadcaster twice.
OnAccountsChanged_twice(diffs) ==
    <<[method |-> "broadcastAccountsUpdate", arg |-> diffs],
      [method |-> "broadcastAccountsUpdate", arg |-> diffs]>>

OnAccountsChanged(diffs) ==
    <<[method |-> "broadcastAccountsUpdate", arg |-> diffs]>>

OnRateLimitsUpdated(stats) ==
    <<[method |-> "broadcastStatsUpdate", arg |-> stats]>>

OnRateLimitCleared(email, family) ==
    <<[method |-> "broadcastRateLimitChange", arg |-> <<email, family, TRUE>>]>>

OnQuotasUpdated(quotas, t) ==
    <<[method |-> "broadcastNow",
       arg |-> [type |-> "config_update", data |-> [quotas |-> quotas], timestamp |-> t]]>>

\* The listener of one accounts-service event; `accounts` is what
\* accountsService.getStats() reads when the listener runs.
Listener(event, accounts, t) ==
    IF event.type = "accounts_loaded"
    THEN OnAccountsLoaded(event.accounts, getStats(accounts, t), t)
    ELSE IF event.type = "accounts_changed" THEN OnAccountsChanged(event.diffs)
    ELSE IF event.type = "rate_limits_updated" THEN OnRateLimitsUpdated(getStats(accounts, t))
    ELSE OnRateLimitCleared(event.email, event.family)

\* The list getAccounts() returns while `event` is being emitted: the list
\* is installed before a load announces it, and complete when the timer
\* announces 'rate_limits_updated'.
ViewAt(event, accounts) ==
    IF event.type = "rate_limit_cleared" THEN event.view ELSE accounts

RECURSIVE WsCalls(_, _, _)
WsCalls(events, accounts, t) ==
    IF events = <<>> THEN <<>>
    ELSE Listener(Head(events), ViewAt(Head(events), accounts), t)
         \o WsCalls(Tail(events), accounts, t)

\* How many of the wsManager calls broadcast an account update for `email`
\* that carries `status`.
StatusUpdates(calls, email, status) ==
    Cardinality({k \in 1..Len(calls) :
        /\ calls[k].method = "broadcastAccountsUpdate"
        /\ \E j \in 1..Len(calls[k].arg) :
              /\ calls[k].arg[j].op = "update"
              /\ calls[k].arg[j].email = email
              /\ calls[k].arg[j].changes.status = status})

\* Reset epochs a registry record may carry for a family (or none): one that
\* passes first and one that passes later.
ResetTimes == {None, Some(1), Some(2)}

\* ------------------------------------------------- QuotaPoller: aggregate

\* ANTIGRAVITY_ENDPOINTS.length: the candidate endpoints of the fetch stage.
NumEndpoints == 2

\* Model names a response may carry, and String.prototype.toLowerCase on them.
ModelNames == {"claude-sonnet", "Anthropic-opus", "Gemini-Pro", "gpt-oss", "gemini-claude-mix"}

ToLowerCase(name) ==
    IF name = "Anthropic-opus" THEN "anthropic-opus"
    ELSE IF name = "Gemini-Pro" THEN "gemini-pro"
    ELSE name

\* String.prototype.includes for the three substrings the filters look for.
Includes(name, sub) ==
    IF sub = "claude" THEN name \in {"claude-sonnet", "gemini-claude-mix"}
    ELSE IF sub = "anthropic" THEN name \in {"anthropic-opus"}
    ELSE IF sub = "gemini" THEN name \in {"gemini-pro", "gemini-claude-mix"}
    ELSE FALSE

IsClaudeModel(m) ==
    \/ Includes(ToLowerCase(m.modelName), "claude")
    \/ Includes(ToLowerCase(m.modelName), "anthropic")

IsGeminiModel(m) == Includes(ToLowerCase(m.modelName), "gemini")

\* Mutant: a later model with the same percent replaces the minimum.
MinModel_last(min, list) ==
    LET pick[k \in 0..Len(list)] ==
            IF k = 0 THEN min
            ELSE IF list[k].remainingPercent <= pick[k - 1].remainingPercent
                 THEN list[k] ELSE pick[k - 1]
    IN  pick[Len(list)]

\* models.reduce((min, m) => m.remainingPercent < min.remainingPercent ? m : min)
\* continued from accumulator `min` over `list`.
MinModel(min, list) ==
    LET pick[k \in 0..Len(list)] ==
            IF k = 0 THEN min
            ELSE IF list[k].remainingPercent < pick[k - 1].remainingPercent
                 THEN list[k] ELSE pick[k - 1]
    IN  pick[Len(list)]

\* The AccountQuota of a failed fetch: nothing but the error (null is None).
EmptyQuota(email, t, error) ==
    [email |-> email,
     lastFetched |-> t,
     fetchError |-> error,
     models |-> <<>>,
     claudeModels |-> <<>>,
     geminiModels |-> <<>>,
     claudeQuotaPercent |-> None,
     geminiQuotaPercent |-> None,
     claudeResetTime |-> None,
     geminiResetTime |-> None]

\* fetchQuotaForAccount after a successful fetch: classify and aggregate the
\* parsed model entries.
AggregateQuota(email, t, models) ==
    LET claudeModels == SelectSeq(models, IsClaudeModel)
        geminiModels == SelectSeq(models, IsGeminiModel)
        minClaude == MinModel(Head(claudeModels), Tail(claudeModels))
        minGemini == MinModel(Head(geminiModels), Tail(geminiModels))
    IN  [EmptyQuota(email, t, None) EXCEPT
            !.models = models,
            !.claudeModels = claudeModels,
            !.geminiModels = geminiModels,
            !.claudeQuotaPercent =
                IF Len(claudeModels) > 0 THEN Some(minClaude.remainingPercent) ELSE None,
            !.claudeResetTime =
                IF Len(claudeModels) > 0 THEN minClaude.resetTimeMs ELSE None,
            !.geminiQuotaPercent =
                IF Len(geminiModels) > 0 THEN Some(minGemini.remainingPercent) ELSE None,
            !.geminiResetTime =
                IF Len(geminiModels) > 0 THEN minGemini.resetTimeMs ELSE None]

\* ------------------------------------------------------ QuotaPoller: parse

\* A remainingFraction is held in thousandths: 405 is 0.405, 1000 is 1.0.
Fractions == {0, 405}

\* Mutant: the percent is cut off instead of rounded.
RoundPercent_floor(fraction) == fraction \div 10

\* Math.round(remainingFraction * 100): to the nearest integer, halves up.
RoundPercent(fraction) == (fraction + 5) \div 10

\* Reset times as the response writes them, and new Date(s).getTime() of them.
IsoTimes == {"1970-01-01T00:00:00.002Z"}

DateGetTime(iso) == IF iso = "1970-01-01T00:00:00.001Z" THEN 1 ELSE 2

\* The entry parseQuotaResponse pushes for a model that has quotaInfo.
ParseModel(modelName, modelData) ==
    LET quotaInfo == modelData.quotaInfo[1]
        remainingFraction == Nullish(quotaInfo.remainingFraction, Some(1000))[1]
        resetTime == IF quotaInfo.resetTime # None /\ quotaInfo.resetTime[1] # ""
                     THEN quotaInfo.resetTime ELSE None
    IN  [modelName |-> modelName,
         displayName |-> IF modelData.displayName # None /\ modelData.displayName[1] # ""
                         THEN modelData.displayName[1] ELSE modelName,
         remainingFraction |-> remainingFraction,
         remainingPercent |-> RoundPercent(remainingFraction),
         resetTime |-> resetTime,
         resetTimeMs |-> IF resetTime # None THEN Some(DateGetTime(resetTime[1])) ELSE None]

\* parseQuotaResponse; data.models is the list of Object.entries(data.models),
\* each entry a record of the model's name and its data.
parseQuotaResponse(data) ==
    IF data.models = None THEN <<>>
    ELSE LET listed == SelectSeq(data.models[1], LAMBDA e : e.modelData.quotaInfo # None)
         IN  [k \in 1..Len(listed) |-> ParseModel(listed[k].modelName, listed[k].modelData)]

\* FetchModelsResponse: the quotaInfo of a model, the data of a model, and
\* the responses, whose models are keyed by distinct names.
QuotaInfos ==
    [remainingFraction : {None} \cup {Some(x) : x \in Fractions},
     resetTime : {None} \cup {Some(t) : t \in IsoTimes}]

ModelDatas ==
    [displayName : {None, Some("Sonnet")},
     quotaInfo : {None} \cup {Some(q) : q \in QuotaInfos}]

ResponseNames == {"claude-sonnet", "Gemini-Pro", "gpt-oss"}

ResponseEntries == [modelName : ResponseNames, modelData : ModelDatas]

FetchModelsResponses ==
    {[models |-> None]}
    \cup {[models |-> Some(l)] :
            l \in {x \in UNION {[1..n -> ResponseEntries] : n \in 0..MaxModels} :
                    \A i, j \in 1..Len(x) : x[i].modelName = x[j].modelName => i = j}}

\* ModelQuotaInfo as parseQuotaResponse builds it (resetTimeMs null is None).
ModelInfos ==
    [modelName : ModelNames, remainingPercent : {0, 40, 70}, resetTimeMs : {None, Some(2)}]

ModelLists == UNION {[1..n -> ModelInfos] : n \in 0..MaxModels}

\* ------------------------------------------------------------ registry inputs


\* RawAccountData. An absent rateLimitResetTimes is the record with both
\* members absent (the code reads it through `?.` only).
RawAccounts ==
    [email : Emails,
     projectId : {None},
     managedProjectId : {None},
     addedAt : {0},
     lastUsed : {0},
     rateLimitResetTimes : [claude : ResetTimes, gemini : ResetTimes]]

\* The registry keeps one record per account email.
RawAccountLists ==
    {<<>>}
    \cup {<<r>> : r \in RawAccounts}
    \cup {l \in {<<r1, r2>> : r1 \in RawAccounts, r2 \in RawAccounts} : l[1].email # l[2].email}

\* RawAccountsFile
RawAccountsFiles ==
    [accounts : RawAccountLists,
     activeIndex : {Some(0)},
     activeIndexByFamily : {[claude |-> None, gemini |-> None]}]

EmptyFile == [accounts |-> <<>>, activeIndex |-> Some(0),
              activeIndexByFamily |-> [claude |-> None, gemini |-> None]]

Files ==
    {[kind |-> k, data |-> EmptyFile] : k \in FileKinds \ {"valid"}}
    \cup {[kind |-> "valid", data |-> d] : d \in RawAccountsFiles}

\* ------------------------------------------------- pure functions, applied

VARIABLES
    call,               \* a call of calculateAccountStatus or calculateDiffs: its arguments
    result              \* what the call returned (optional: none while not yet made)

fnVars == <<call, result>>

DiffEmails == {"a", "b", "c"}

RawWith(email, claude) ==
    [email |-> email,
     projectId |-> None,
     managedProjectId |-> None,
     addedAt |-> 0,
     lastUsed |-> 0,
     rateLimitResetTimes |-> [claude |-> claude, gemini |-> None]]

\* Account states as processAccounts builds them: per email one without a
\* limit and two with the same claude epoch built at different times (they
\* differ in the nested timeUntilReset only); one state for the third email.
DiffAccounts ==
    {processAccount(RawWith(e, c), 1, EmptyFile, t) :
        e \in {"a", "b"}, c \in {None, Some(2)}, t \in {0, 1}}
    \cup {processAccount(RawWith("c", None), 1, EmptyFile, 0)}

\* Any ordered lists: reordered, and with an email more than once.
AccountLists == UNION {[1..n -> DiffAccounts] : n \in 0..MaxLen}

\* Stored rate-limit infos of any shape, consistent or not.
StatusInfos ==
    {None} \cup {Some([resetTime |-> r, timeUntilReset |-> u, isExpired |-> e]) :
                    r \in {1, 2}, u \in {0, 1}, e \in BOOLEAN}

StatusAccounts ==
    [email : {"a", "b"},
     projectId : {None},
     managedProjectId : {None},
     addedAt : {0},
     lastUsed : {0},
     isActive : {FALSE},
     activeForClaude : {FALSE},
     activeForGemini : {FALSE},
     status : Statuses,
     rateLimits : [claude : StatusInfos, gemini : StatusInfos]]

NoAccount == processAccount(RawWith("a", None), 1, EmptyFile, 0)

NoCall == [fn |-> "none", account |-> NoAccount, previous |-> <<>>, current |-> <<>>]

Calls ==
    {[fn |-> "calculateAccountStatus", account |-> a, previous |-> <<>>, current |-> <<>>] :
        a \in StatusAccounts}
    \cup {[fn |-> "calculateDiffs", account |-> NoAccount, previous |-> p, current |-> c] :
            p \in AccountLists, c \in AccountLists}

\* fetchQuotaForAccount's aggregation, applied to any parsed model list.
AggregateCalls == {[fn |-> "aggregate", models |-> m] : m \in ModelLists}

\* Registry snapshots with every placement of the active indices: in range,
\* past the end, and family overrides present (0 included) or absent.
ActiveFiles ==
    [accounts : {<<>>, <<RawWith("a", None)>>, <<RawWith("a", None), RawWith("b", None)>>},
     activeIndex : {Some(0), Some(1), Some(2)},
     activeIndexByFamily : [claude : {None, Some(0), Some(1)},
                            gemini : {None, Some(0), Some(1)}]]

ProcessCalls == {[fn |-> "processAccounts", data |-> d] : d \in ActiveFiles}

ParseCalls == {[fn |-> "parseQuotaResponse", data |-> d] : d \in FetchModelsResponses}

InitFn ==
    /\ call \in Calls \cup AggregateCalls \cup ProcessCalls \cup ParseCalls
    /\ result = None

CallCalculateAccountStatus ==
    /\ call.fn = "calculateAccountStatus"
    /\ result = None
    /\ result' = Some(calculateAccountStatus(call.account))
    /\ UNCHANGED call

CallCalculateDiffs ==
    /\ call.fn = "calculateDiffs"
    /\ result = None
    /\ result' = Some(calculateDiffs(call.previous, call.current))
    /\ UNCHANGED call

CallProcessAccounts ==
    /\ call.fn = "processAccounts"
    /\ result = None
    /\ result' = Some(processAccounts(call.data, 0))
    /\ UNCHANGED call

CallAggregate ==
    /\ call.fn = "aggregate"
    /\ result = None
    /\ result' = Some(AggregateQuota("a", 0, call.models))
    /\ UNCHANGED call

CallParseQuotaResponse ==
    /\ call.fn = "parseQuotaResponse"
    /\ result = None
    /\ result' = Some(parseQuotaResponse(call.data))
    /\ UNCHANGED call

\* ---------------------------------------------------------- ChangeBroadcaster

VARIABLES
    subscribers,        \* the registered subscribers
    joinedAt,           \* per subscriber: how many events had been published when it joined
    queue,              \* per subscriber: messages sent to it and not yet delivered
    received,           \* per subscriber: messages delivered to it, in delivery order
    published,          \* how many service events have been published
    failed              \* subscribers removed by a failed delivery and not back since

wsVars == <<subscribers, joinedAt, queue, received, published, failed>>

Subs == 1..MaxSubscribers

\* The message a wsManager method sends (WSMessage); `seq` numbers the
\* published event it belongs to.
MessageOf(c, seq, t) ==
    IF c.method = "broadcastNow" THEN c.arg @@ [seq |-> seq]
    ELSE [type |-> IF c.method = "broadcastAccountsUpdate" THEN "accounts_update"
                   ELSE IF c.method = "broadcastStatsUpdate" THEN "stats_update"
                   ELSE "rate_limit_change",
          data |-> c.arg,
          timestamp |-> t,
          seq |-> seq]

\* The full current-state snapshot a new subscriber is sent: the state after
\* the first `seq` published events.
Snapshot(seq, t) ==
    [type |-> "initial", data |-> [snapshotOf |-> seq], timestamp |-> t, seq |-> seq]

\* Mutant: new messages are put in front of the ones still waiting.
Enqueue_front(q, msgs) == msgs \o q

\* A subscriber's delivery path: messages are appended in publish order.
Enqueue(q, msgs) == q \o msgs

\* The messages of one published event, from the calls its listener made.
Messages(calls, seq, t) == [k \in 1..Len(calls) |-> MessageOf(calls[k], seq, t)]

InitBroadcaster ==
    /\ subscribers = {}
    /\ joinedAt = [s \in Subs |-> 0]
    /\ queue = [s \in Subs |-> <<>>]
    /\ received = [s \in Subs |-> <<>>]
    /\ published = 0
    /\ failed = {}

\* subscribe(): registration and the snapshot of the current state are one
\* step, so every later publish reaches the subscriber after its snapshot.
Subscribe(s) ==
    /\ s \notin subscribers
    /\ subscribers' = subscribers \cup {s}
    /\ joinedAt' = [joinedAt EXCEPT ![s] = published]
    /\ queue' = [queue EXCEPT ![s] = <<Snapshot(published, now)>>]
    /\ received' = [received EXCEPT ![s] = <<>>]
    /\ failed' = failed \ {s}
    /\ UNCHANGED published

\* The subscriber disconnects; its connection and what it held are gone.
Leave(s) ==
    /\ s \in subscribers
    /\ subscribers' = subscribers \ {s}
    /\ queue' = [queue EXCEPT ![s] = <<>>]
    /\ received' = [received EXCEPT ![s] = <<>>]
    /\ joinedAt' = [joinedAt EXCEPT ![s] = 0]
    /\ UNCHANGED <<published, failed>>

\* One message reaches the subscriber: the oldest one waiting for it.
Deliver(s) ==
    /\ s \in subscribers
    /\ queue[s] # <<>>
    /\ received' = [received EXCEPT ![s] = Append(@, Head(queue[s]))]
    /\ queue' = [queue EXCEPT ![s] = Tail(@)]
    /\ UNCHANGED <<subscribers, joinedAt, published, failed>>

\* Mutant: one failed delivery ends the fan-out for everybody.
Recipients_none(subs, failing) == IF failing = {} THEN subs ELSE {}

\* The subscribers a publish reaches: all but those whose delivery fails.
Recipients(subs, failing) == subs \ failing

\* publish: the calls one listener makes fan out to every registered
\* subscriber. Delivery to a subscriber fails when its channel is closed or
\* broken (`broken`, the environment's choice) or when its buffer would
\* overflow; such a subscriber is removed instead of waited for or retried.
Publish(calls) ==
    /\ published < MaxEvents
    /\ published' = published + 1
    /\ \E broken \in SUBSET subscribers :
         LET msgs == Messages(calls, published + 1, now)
             failing == broken \cup
                          {s \in subscribers : Len(queue[s]) + Len(msgs) > MaxQueue}
             kept == Recipients(subscribers, failing)
         IN  /\ subscribers' = kept
             /\ failed' = failed \cup failing
             /\ queue' = [s \in Subs |->
                            IF s \in kept THEN Enqueue(queue[s], msgs) ELSE <<>>]
    /\ UNCHANGED <<joinedAt, received>>

\* The services emit an event and its listener runs.
EmitAccountsLoaded == Publish(OnAccountsLoaded(<<>>, getStats(<<>>, now), now))

EmitAccountsChanged == Publish(OnAccountsChanged(<<[op |-> "remove", email |-> "a"]>>))

EmitRateLimitsUpdated == Publish(OnRateLimitsUpdated(getStats(<<>>, now)))

EmitRateLimitCleared == Publish(OnRateLimitCleared("a", "claude"))

EmitQuotasUpdated == Publish(OnQuotasUpdated(<<>>, now))

\* The interceptor reports a proxied call.
EmitNewCall == Publish(safeBroadcast("call", now))

\* ----------------------------------------------------------------- QuotaPoller

VARIABLES
    cacheAccounts,      \* cache.accounts: per email the stored AccountQuota, if any
    lastFullFetch,      \* cache.lastFullFetch (0: never)
    tokenCache,         \* per refresh token: expiresAt of the cached access token (0: none)
    pollingInterval,    \* whether the polling timer is installed
    cycle,              \* the run of fetchAllQuotas in flight, or the last one finished
    lastSuccessStart    \* when the last cycle without a failed fetch started (0: none)

qVars == <<cacheAccounts, lastFullFetch, tokenCache, pollingInterval, cycle, lastSuccessStart>>

\* Date.now(): positive, so never the 0 that lastFullFetch starts with.
DateNow == now + 1

\* pollingMs, and the token stage's margin (60 s) and default lifetime
\* (3600 s), on the model's time scale.
PollingMs == 1

TokenMargin == 1

TokenLifetime == 2

\* Accounts a cycle is asked to fetch; an account's refresh token is its own.
QuotaAccountLists == {<<>>, <<"a">>, <<"b">>, <<"a", "b">>, <<"a", "a">>}

\* What a quota endpoint answers: a list of models, a body the parse stage
\* throws on, a non-success status, or a transport failure / the 15 s abort.
ResponseModels ==
    {<<>>,
     <<[modelName |-> "claude-sonnet", remainingPercent |-> 40, resetTimeMs |-> Some(2)],
       [modelName |-> "Gemini-Pro", remainingPercent |-> 70, resetTimeMs |-> None]>>}

FetchResponses ==
    {[kind |-> "ok", models |-> m] : m \in ResponseModels}
    \cup {[kind |-> k, models |-> <<>>] : k \in {"malformed", "not_ok", "failed"}}

IdleCycle ==
    [phase |-> "idle", accounts |-> <<>>, idx |-> 1, endpoint |-> 1, fetchedAt |-> 0,
     startedAt |-> 0, results |-> <<>>, outcomes |-> <<>>, calls |-> <<>>]

InitQuota ==
    /\ cacheAccounts = [e \in Emails |-> None]
    /\ lastFullFetch = 0
    /\ tokenCache = [e \in Emails |-> 0]
    /\ pollingInterval = FALSE
    /\ cycle = IdleCycle
    /\ lastSuccessStart = 0

\* Mutant: a cached token is reused until the moment it expires.
TokenCached_noMargin(tokens, refreshToken, t) == tokens[refreshToken] > t

\* refreshAccessToken: the cached token is reused while its expiry is more
\* than the margin away.
TokenCached(tokens, refreshToken, t) == tokens[refreshToken] > t + TokenMargin

getCacheAge(fetched, t) == IF fetched = 0 THEN None ELSE Some(t - fetched)

\* isCacheStale: Infinity (None) exceeds every interval.
isCacheStale(fetched, t) ==
    IF getCacheAge(fetched, t) = None THEN TRUE ELSE getCacheAge(fetched, t)[1] > PollingMs

getCachedQuotas(cache) == {cache[e][1] : e \in {x \in Emails : cache[x] # None}}

\* Mutant: a failed fetch is not reported in the cycle's results.
PushResult_ifOk(results, quota) ==
    IF quota.fetchError = None THEN Append(results, quota) ELSE results

\* results.push(quota)
PushResult(results, quota) == Append(results, quota)

\* Mutant: a failed fetch drops the account's cached record.
CacheAfterFailure_dropped(cache, quota) == [cache EXCEPT ![quota.email] = None]

\* Mutant: the record of a failed fetch replaces the cached one.
CacheAfterFailure_stored(cache, quota) == [cache EXCEPT ![quota.email] = Some(quota)]

\* fetchQuotaForAccount returns on a failed stage before it reaches
\* cache.accounts.set.
CacheAfterFailure(cache, quota) == cache

\* Mutant: the fetch stage gives up after the first endpoint.
Exhausted_first(endpoint) == TRUE

\* The loop over ANTIGRAVITY_ENDPOINTS has no endpoint left after this one.
Exhausted(endpoint) == endpoint >= NumEndpoints

\* The account a cycle is working on.
Current(c) == c.accounts[c.idx]

\* The cycle with the current account's result and outcome recorded.
Recorded(c, quota, kind) ==
    [c EXCEPT !.results = PushResult(@, quota),
              !.outcomes = Append(@, [kind |-> kind, calls |-> c.calls])]

\* fetchAllQuotas runs on from account c.idx up to its next await: either the
\* token stage of that account, or the end of the cycle.
Continue(c) ==
    IF c.idx > Len(c.accounts)
    THEN /\ cycle' = [c EXCEPT !.phase = "done"]
         /\ lastFullFetch' = DateNow
         /\ lastSuccessStart' =
                IF \A k \in 1..Len(c.outcomes) : c.outcomes[k].kind = "ok"
                THEN c.startedAt ELSE lastSuccessStart
    ELSE /\ cycle' = [c EXCEPT !.phase = IF TokenCached(tokenCache, Current(c), DateNow)
                                         THEN "fetch" ELSE "token",
                               !.endpoint = 1,
                               !.calls = <<>>,
                               !.fetchedAt = DateNow]
         /\ UNCHANGED <<lastFullFetch, lastSuccessStart>>

\* fetchAllQuotas(accounts) is called while no other call of it is in
\* flight; LaunchCycle is the call at any moment.
StartCycle(accounts) ==
    /\ cycle.phase \in {"idle", "done"}
    /\ Continue([IdleCycle EXCEPT !.accounts = accounts, !.startedAt = DateNow])
    /\ UNCHANGED <<cacheAccounts, tokenCache>>

\* startPolling: an immediate cycle, whatever the account list, and the timer.
StartPollingOn(lists) ==
    /\ ~pollingInterval
    /\ pollingInterval' = TRUE
    /\ \E accounts \in lists : StartCycle(accounts)

StartPolling == StartPollingOn(QuotaAccountLists)

\* The polling timer fires.
PollTick ==
    /\ pollingInterval
    /\ \E accounts \in QuotaAccountLists \ {<<>>} : StartCycle(accounts)
    /\ UNCHANGED pollingInterval

\* GET /api/accounts/quota: a synchronous refresh when nothing is cached or
\* the cache is stale.
QuotaRoute ==
    /\ IF getCachedQuotas(cacheAccounts) = {} THEN TRUE
       ELSE isCacheStale(lastFullFetch, DateNow)
    /\ \E accounts \in QuotaAccountLists \ {<<>>} : StartCycle(accounts)
    /\ UNCHANGED pollingInterval

\* POST /api/accounts/quota/refresh
ForceRefresh ==
    /\ \E accounts \in QuotaAccountLists \ {<<>>} : StartCycle(accounts)
    /\ UNCHANGED pollingInterval

\* The token endpoint answers: a new access token, or a refusal / transport
\* error. The call carries no timeout, so no answer may ever come.
TokenResponds ==
    /\ cycle.phase = "token"
    /\ \E ok \in BOOLEAN :
         IF ok
         THEN /\ tokenCache' = [tokenCache EXCEPT ![Current(cycle)] = DateNow + TokenLifetime]
              /\ cycle' = [cycle EXCEPT !.phase = "fetch"]
              /\ UNCHANGED cacheAccounts
         ELSE LET quota == EmptyQuota(Current(cycle), cycle.fetchedAt,
                                      Some("Failed to refresh access token"))
              IN  /\ cycle' = [Recorded(cycle, quota, "token_failed") EXCEPT !.phase = "pace"]
                  /\ cacheAccounts' = CacheAfterFailure(cacheAccounts, quota)
                  /\ UNCHANGED tokenCache
    /\ UNCHANGED <<lastFullFetch, pollingInterval, lastSuccessStart>>

\* The endpoint in turn answers or its call is aborted after 15 s.
FetchResponds ==
    /\ cycle.phase = "fetch"
    /\ \E response \in FetchResponses :
         LET c == [cycle EXCEPT !.calls = Append(@, [endpoint |-> cycle.endpoint,
                                                     ok |-> response.kind \in {"ok", "malformed"}])]
         IN  IF response.kind = "ok"
             THEN LET quota == AggregateQuota(Current(c), c.fetchedAt, response.models)
                  IN  /\ cacheAccounts' = [cacheAccounts EXCEPT ![quota.email] = Some(quota)]
                      /\ cycle' = [Recorded(c, quota, "ok") EXCEPT !.phase = "pace"]
                      /\ UNCHANGED <<lastFullFetch, lastSuccessStart>>
             ELSE IF response.kind = "malformed"
             THEN \* parseQuotaResponse throws; fetchAllQuotas catches and goes on
                  \* to the next account without the pacing delay
                  LET quota == EmptyQuota(Current(c), DateNow, Some("TypeError"))
                  IN  /\ cacheAccounts' = CacheAfterFailure(cacheAccounts, quota)
                      /\ Continue([Recorded(c, quota, "exception") EXCEPT !.idx = @ + 1])
             ELSE IF Exhausted(c.endpoint)
             THEN LET quota == EmptyQuota(Current(c), c.fetchedAt,
                                          Some("Failed to fetch models from API"))
                  IN  /\ cacheAccounts' = CacheAfterFailure(cacheAccounts, quota)
                      /\ cycle' = [Recorded(c, quota, "fetch_failed") EXCEPT !.phase = "pace"]
                      /\ UNCHANGED <<lastFullFetch, lastSuccessStart>>
             ELSE /\ cycle' = [c EXCEPT !.endpoint = @ + 1]
                  /\ UNCHANGED <<cacheAccounts, lastFullFetch, lastSuccessStart>>
    /\ UNCHANGED <<tokenCache, pollingInterval>>

\* The 500 ms between two accounts has passed.
Pace ==
    /\ cycle.phase = "pace"
    /\ Continue([cycle EXCEPT !.idx = @ + 1])
    /\ UNCHANGED <<cacheAccounts, tokenCache, pollingInterval>>

\* Time passes.
Elapse ==
    /\ now < MaxTime
    /\ now' = now + 1
    /\ UNCHANGED <<processedAccounts, lastData, watcher, updateInterval, emitted, lastOp, history,
                   statusPending>>
    /\ UNCHANGED qVars

\* ------------------------------------------------- overlapping poll cycles

VARIABLES
    parked,             \* a second call of fetchAllQuotas, suspended at an await while
                        \* `cycle` is the one the model follows, with its serial number
    serial,             \* the serial number of `cycle` (0: none started)
    started,            \* how many calls of fetchAllQuotas were made
    writer,             \* per email: the serial of the cycle that last set its cache entry
    newest,             \* per email: the highest serial of a cycle that set its cache entry
    timers,             \* how many interval timers are armed
    entry               \* the entry point called last, and whether it called fetchAllQuotas

oVars == <<parked, serial, started, writer, newest, timers, entry>>

InitOverlap ==
    /\ parked = [c |-> IdleCycle, serial |-> 0]
    /\ serial = 0
    /\ started = 0
    /\ writer = [e \in Emails |-> 0]
    /\ newest = [e \in Emails |-> 0]
    /\ timers = 0
    /\ entry = [op |-> "none", fetches |-> FALSE]

InFlight(c) == c.phase \in {"token", "fetch", "pace"}

\* What getRawAccountsForQuota returns to an entry point.
PollLists == {<<>>, <<"a">>}

\* fetchAllQuotas(accounts) is called, whatever else is in flight: the call
\* runs to its first await, and a cycle suspended at an await stays suspended.
\* The model holds two cycles at most.
LaunchCycle(accounts) ==
    /\ started < MaxCycles
    /\ ~InFlight(parked.c)
    /\ parked' = IF InFlight(cycle) THEN [c |-> cycle, serial |-> serial] ELSE parked
    /\ serial' = started + 1
    /\ started' = started + 1
    /\ Continue([IdleCycle EXCEPT !.accounts = accounts, !.startedAt = DateNow])
    /\ UNCHANGED <<cacheAccounts, tokenCache, writer, newest>>

\* clearInterval(this.pollingInterval) when it is set
ClearTimer(armed, n) == IF armed THEN n - 1 ELSE n

\* Mutant: startPolling arms a timer without clearing the one armed.
ArmTimer_leak(armed, n) == n + 1

\* startPolling: the timers armed once it has cleared and armed.
ArmTimer(armed, n) == ClearTimer(armed, n) + 1

\* startPolling: clears the armed timer if there is one, calls fetchAllQuotas
\* and arms a timer.
StartPollingAgain ==
    /\ \E accounts \in PollLists : LaunchCycle(accounts)
    /\ timers' = ArmTimer(pollingInterval, timers)
    /\ pollingInterval' = TRUE
    /\ entry' = [op |-> "startPolling", fetches |-> TRUE]

\* stopPolling
StopPolling ==
    /\ timers' = ClearTimer(pollingInterval, timers)
    /\ pollingInterval' = FALSE
    /\ entry' = [op |-> "stopPolling", fetches |-> FALSE]
    /\ UNCHANGED <<cacheAccounts, lastFullFetch, tokenCache, cycle, lastSuccessStart,
                   parked, serial, started, writer, newest>>

\* An armed timer fires: a cycle when the account list is not empty.
TimerFires ==
    /\ timers > 0
    /\ \E accounts \in PollLists :
         IF Len(accounts) > 0
         THEN /\ LaunchCycle(accounts)
              /\ entry' = [op |-> "timer", fetches |-> TRUE]
         ELSE /\ entry' = [op |-> "timer", fetches |-> FALSE]
              /\ UNCHANGED <<cacheAccounts, lastFullFetch, tokenCache, cycle, lastSuccessStart,
                             parked, serial, started, writer, newest>>
    /\ UNCHANGED <<pollingInterval, timers>>

\* GET /api/accounts/quota with nothing cached or a stale cache, and accounts
\* in the registry.
RouteRefreshes ==
    /\ IF getCachedQuotas(cacheAccounts) = {} THEN TRUE
       ELSE isCacheStale(lastFullFetch, DateNow)
    /\ \E accounts \in PollLists \ {<<>>} : LaunchCycle(accounts)
    /\ entry' = [op |-> "route", fetches |-> TRUE]
    /\ UNCHANGED <<pollingInterval, timers>>

\* POST /api/accounts/quota/refresh with accounts in the registry.
ForceRefreshes ==
    /\ \E accounts \in PollLists \ {<<>>} : LaunchCycle(accounts)
    /\ entry' = [op |-> "forceRefresh", fetches |-> TRUE]
    /\ UNCHANGED <<pollingInterval, timers>>

\* The answer that arrives next belongs to the other cycle in flight: the
\* model follows that one from here on.
Resume ==
    /\ InFlight(parked.c)
    /\ cycle' = parked.c
    /\ serial' = parked.serial
    /\ parked' = [c |-> cycle, serial |-> serial]
    /\ UNCHANGED <<cacheAccounts, lastFullFetch, tokenCache, pollingInterval, lastSuccessStart,
                   started, writer, newest, timers, entry>>

\* A step of the cycle followed; `writer` and `newest` record a cache.set.
CycleStep ==
    /\ TokenResponds \/ FetchResponds \/ Pace
    /\ LET sets == /\ Len(cycle'.outcomes) > Len(cycle.outcomes)
                    /\ cycle'.outcomes[Len(cycle'.outcomes)].kind = "ok"
           email == Current(cycle)
       IN  IF sets
           THEN /\ writer' = [writer EXCEPT ![email] = serial]
                /\ newest' = [newest EXCEPT ![email] = Max(@, serial)]
           ELSE UNCHANGED <<writer, newest>>
    /\ UNCHANGED <<parked, serial, started, timers, entry>>

\* ------------------------------------------------------ AntigravityInterceptor

VARIABLES
    activeRequests,     \* this.activeRequests: per request id its RequestMetadata, if any
    apiCalls,           \* the rows of the monitor's api_calls table, in insertion order
    accountStatus,      \* the monitor's account_status table: per email its row, if any
    newCalls,           \* the calls safeBroadcast has made on wsManager
    completion          \* the last call of onRequestComplete: its number, its arguments,
                        \* whether the id was tracked, and whether a monitor write threw

iVars == <<activeRequests, apiCalls, accountStatus, newCalls, completion>>

RequestIds == {"r1", "r2"}

\* The `response` argument of onRequestComplete (tokens left out): a success,
\* a success that carries status 429, a failure with 429 and a retry delay,
\* one with 429 and none, a failure with 500, and one without a status.
Responses ==
    {[success |-> TRUE, httpStatus |-> None, error |-> None],
     [success |-> TRUE, httpStatus |-> Some(429), error |-> None],
     [success |-> FALSE, httpStatus |-> Some(429), error |-> Some("retry after 2s")],
     [success |-> FALSE, httpStatus |-> Some(429), error |-> Some("internal error")],
     [success |-> FALSE, httpStatus |-> Some(500), error |-> Some("internal error")],
     [success |-> FALSE, httpStatus |-> None, error |-> None]}

\* What a write of the monitor to its database does: it returns or it throws;
\* `status_throws` is a throw of updateAccountStatus after logApiCall returned.
MonitorOutcomes == {"ok", "log_throws", "status_throws"}

NoCompletion ==
    [seq |-> 0, requestId |-> "none", response |-> [success |-> TRUE, httpStatus |-> None,
                                                     error |-> None],
     tracked |-> FALSE, threw |-> FALSE]

InitInterceptor ==
    /\ activeRequests = [r \in RequestIds |-> None]
    /\ apiCalls = <<>>
    /\ accountStatus = [e \in Emails |-> None]
    /\ newCalls = <<>>
    /\ completion = NoCompletion

\* Mutant: HTTP 429 counts as rate-limited whether or not the call succeeded.
StatusOf_429first(response) ==
    IF response.httpStatus = Some(429) THEN "rate_limited"
    ELSE IF response.success THEN "success"
    ELSE "error"

\* onRequestComplete: the status logged for a response.
StatusOf(response) ==
    IF response.success THEN "success"
    ELSE IF response.httpStatus = Some(429) THEN "rate_limited"
    ELSE "error"

\* response.error?.match(/(\d+)s/) and parseInt of its group: the seconds
\* named in the error text, if any.
RetrySeconds(error) == IF error = Some("retry after 2s") THEN Some(2) ELSE None

\* The row logApiCall inserts.
ApiCallOf(metadata, response, t) ==
    [timestamp |-> metadata.startTime,
     account_email |-> metadata.account_email,
     duration_ms |-> t - metadata.startTime,
     status |-> StatusOf(response),
     error_message |-> response.error,
     http_status |-> response.httpStatus]

\* The row updateAccountStatus leaves for the account of a call that was
\* rate-limited or succeeded; retryAfter is undefined when it is 0.
AccountStatusOf(response, t) ==
    IF StatusOf(response) = "rate_limited"
    THEN [is_rate_limited |-> TRUE,
          rate_limit_reset |-> IF Truthy(RetrySeconds(response.error))
                               THEN Some(t + RetrySeconds(response.error)[1]) ELSE None,
          last_error |-> response.error,
          last_updated |-> t]
    ELSE [is_rate_limited |-> FALSE, rate_limit_reset |-> None, last_error |-> None,
          last_updated |-> t]

\* The message onRequestComplete hands to safeBroadcast.
ApiCallMessage(metadata, response, t) ==
    [type |-> "api_call",
     call |-> [timestamp |-> metadata.startTime,
               account |-> metadata.account_email,
               status |-> StatusOf(response),
               duration |-> t - metadata.startTime]]

\* onRequestStart(requestId, metadata): the id is tracked from now on, a
\* second start under the same id replacing the first.
OnRequestStart ==
    /\ \E requestId \in RequestIds :
         activeRequests' = [activeRequests EXCEPT
                               ![requestId] = Some([account_email |-> "a", startTime |-> now])]
    /\ UNCHANGED <<apiCalls, accountStatus, newCalls, completion>>

\* onRequestComplete(requestId, response). The monitor's writes are
\* synchronous database statements and are not guarded: a throw of either
\* leaves the method at that line.
OnRequestComplete ==
    /\ completion.seq < MaxCalls
    /\ \E requestId \in RequestIds : \E response \in Responses : \E db \in MonitorOutcomes :
         LET metadata == activeRequests[requestId]
             done == [seq |-> completion.seq + 1, requestId |-> requestId,
                      response |-> response, tracked |-> metadata # None, threw |-> FALSE]
         IN  IF metadata = None
             THEN /\ completion' = done
                  /\ UNCHANGED <<activeRequests, apiCalls, accountStatus, newCalls>>
             ELSE IF db = "log_throws"
             THEN /\ completion' = [done EXCEPT !.threw = TRUE]
                  /\ UNCHANGED <<activeRequests, apiCalls, accountStatus, newCalls>>
             ELSE IF db = "status_throws" /\ StatusOf(response) # "error"
             THEN /\ apiCalls' = Append(apiCalls, ApiCallOf(metadata[1], response, now))
                  /\ completion' = [done EXCEPT !.threw = TRUE]
                  /\ UNCHANGED <<activeRequests, accountStatus, newCalls>>
             ELSE /\ apiCalls' = Append(apiCalls, ApiCallOf(metadata[1], response, now))
                  /\ accountStatus' =
                        IF StatusOf(response) = "error" THEN accountStatus
                        ELSE [accountStatus EXCEPT ![metadata[1].account_email] =
                                                      Some(AccountStatusOf(response, now))]
                  /\ newCalls' = newCalls \o
                                 safeBroadcast(ApiCallMessage(metadata[1], response, now), now)
                  /\ activeRequests' = [activeRequests EXCEPT ![requestId] = None]
                  /\ completion' = done

\* ------------------------------------------------------------- RegistryWatcher

VARIABLES
    quiet,              \* the debounce timer: polls without a write so far, if one is pending
    sinceWrite,         \* polls since the last raw write event (saturating)
    burst,              \* the burst of writes at hand: its writes and the rebuilds it caused
    announced,          \* emails whose latest add/update/remove event is not a remove
    known               \* the same, emptied by a clearing update

wVars == <<quiet, sinceWrite, burst, announced, known>>

\* awaitWriteFinish: stabilityThreshold 100 ms, polled every 50 ms.
QuietPolls == 2

InitWatcher ==
    /\ quiet = None
    /\ sinceWrite = QuietPolls
    /\ burst = [writes |-> 0, rebuilds |-> 0]
    /\ announced = {}
    /\ known = {}

\* Mutant: a write during the wait does not restart it.
DebounceOnWrite_keep(timer) == IF timer = None THEN Some(0) ELSE timer

\* The debounce timer after a raw write event: reset on every signal.
DebounceOnWrite(timer) == Some(0)

\* The emails of a diff list with the given operations.
DiffEmailsOf(events, ops) ==
    UNION {{events[k].diffs[j].email :
                j \in {i \in 1..Len(events[k].diffs) : events[k].diffs[i].op \in ops}} :
            k \in {i \in 1..Len(events) : events[i].type = "accounts_changed"}}

\* The emails a consumer of the add/update/remove events holds after `events`.
AfterDiffs(S, events) ==
    (S \cup DiffEmailsOf(events, {"add", "update"})) \ DiffEmailsOf(events, {"remove"})

\* Whether `events` holds a clearing update: 'accounts_loaded' with no account.
Clearing(events) ==
    \E k \in 1..Len(events) :
        events[k].type = "accounts_loaded" /\ events[k].accounts = <<>>

\* ------------------------------------------------------- registry resource

VARIABLES
    disk,               \* what is at ACCOUNTS_FILE_PATH
    signals,            \* events the watcher has raised and not yet handed to a handler
    tracked             \* per email and family: the reset epoch of a limit that was
                        \* loaded unexpired and is held since, and the
                        \* 'rate_limit_cleared' events emitted for it

rVars == <<disk, signals, tracked>>

AbsentFile == [kind |-> "absent", data |-> EmptyFile]

FileOf(accounts) ==
    [kind |-> "valid",
     data |-> [accounts |-> accounts, activeIndex |-> Some(0),
               activeIndexByFamily |-> [claude |-> None, gemini |-> None]]]

\* What the external writer may leave at the path.
RegistryFiles ==
    {AbsentFile, [kind |-> "invalid_json", data |-> EmptyFile], FileOf(<<>>)}
    \cup {FileOf(<<RawWith("a", c)>>) : c \in ResetTimes}
    \cup {FileOf(<<RawWith("b", Some(2)), RawWith("a", Some(1))>>)}
    \cup {[FileOf(<<RawWith("b", Some(2)), RawWith("a", None)>>)
                EXCEPT !.data.activeIndex = Some(1)]}

NoLimits == [e \in Emails |-> [f \in Families |-> None]]

InitRegistry ==
    /\ disk = AbsentFile
    /\ signals = {}
    /\ tracked = NoLimits

\* The limits held after a load installed `accounts`: a limit stays tracked
\* while its account stays listed with the same reset epoch, and a new one is
\* tracked if it is loaded unexpired.
TrackedAfterLoad(t, accounts) ==
    [e \in Emails |-> [f \in Families |->
        IF MapHas(accounts, e) /\ MapGet(accounts, e).rateLimits[f] # None
        THEN LET info == MapGet(accounts, e).rateLimits[f][1]
             IN  IF t[e][f] # None /\ t[e][f][1].resetTime = info.resetTime THEN t[e][f]
                 ELSE IF ~info.isExpired
                 THEN Some([resetTime |-> info.resetTime, cleared |-> 0])
                 ELSE None
        ELSE None]]

\* ... and after a run of the timer that emitted `events`.
TrackedAfterTick(t, events) ==
    [e \in Emails |-> [f \in Families |->
        IF t[e][f] = None THEN None
        ELSE Some([t[e][f][1] EXCEPT !.cleared = @ + Cardinality({k \in 1..Len(events) :
                        /\ events[k].type = "rate_limit_cleared"
                        /\ events[k].email = e
                        /\ events[k].family = f})])]]

\* ------------------------------------------------------------------ actions

svcVars == <<now, processedAccounts, lastData, watcher, updateInterval, emitted, lastOp, history,
             statusPending>>

NoOp(op) == [op |-> op, kind |-> "none", log |-> "none", hadAccounts |-> FALSE]

HistoryAtLoad(accounts) ==
    [i \in 1..Len(accounts) |->
        [f \in Families |->
            [loadedLimited |-> accounts[i].rateLimits[f] # None
                               /\ ~accounts[i].rateLimits[f][1].isExpired,
             cleared |-> 0]]]

\* After the constructor.
InitService ==
    /\ now = 0
    /\ processedAccounts = <<>>
    /\ lastData = None
    /\ watcher = FALSE
    /\ updateInterval = FALSE
    /\ emitted = <<>>
    /\ lastOp = NoOp("new")
    /\ history = <<>>
    /\ statusPending = {}

\* Time passes.
AdvanceService ==
    /\ now < MaxTime
    /\ now' = now + 1
    /\ emitted' = <<>>
    /\ lastOp' = NoOp("advance")
    /\ UNCHANGED <<processedAccounts, lastData, watcher, updateInterval, history, statusPending>>

Advance == AdvanceService /\ UNCHANGED <<fnVars, wsVars, qVars, wVars, rVars, oVars, iVars>>

\* What a run of loadAccountsFile on `file` does to the service.
RunLoad(op, file) ==
    \E r \in {loadAccountsFile(file, processedAccounts, lastData, now)} :
        /\ processedAccounts' = r.processedAccounts
        /\ lastData' = r.lastData
        /\ emitted' = r.emitted
        /\ lastOp' = [op |-> op, kind |-> file.kind, log |-> r.log,
                      hadAccounts |-> processedAccounts # <<>>]
        /\ history' = IF file.kind \in {"absent", "valid"}
                      THEN HistoryAtLoad(r.processedAccounts)
                      ELSE history
        /\ statusPending' = IF file.kind \in {"absent", "valid"} THEN {} ELSE statusPending

\* start(), called once by getAccountsService(): the first load, then the
\* watcher (only if the file exists), then the timer.
StartOn(file) ==
    /\ ~updateInterval
    /\ RunLoad("start", file)
    /\ watcher' = (file.kind # "absent")
    /\ updateInterval' = TRUE
    /\ UNCHANGED now

StartService == \E file \in Files : StartOn(file)

Start == StartService /\ UNCHANGED <<fnVars, wsVars, qVars, wVars, rVars, oVars, iVars>>

\* The watcher's 'change' handler: loadAccountsFile runs on what is at the
\* path by then (the file may be gone again when it is read).
LoadFrom(files) ==
    /\ watcher
    /\ \E file \in files : RunLoad("load", file)
    /\ UNCHANGED <<now, watcher, updateInterval>>

LoadAccountsFile == LoadFrom(Files) /\ UNCHANGED <<fnVars, wsVars, qVars, wVars, rVars, oVars, iVars>>

\* The StatusClock: the 15 s interval callback runs.
TickService ==
    /\ updateInterval
    /\ \E r \in {RateLimitUpdater(processedAccounts, now)} :
        /\ processedAccounts' = r.accounts
        /\ emitted' = r.emitted
        /\ history' = [i \in 1..Len(processedAccounts) |->
                        [f \in Families |->
                            [history[i][f] EXCEPT
                                !.cleared = @ + ClearedAt(r.emitted, i, f)]]]
        /\ statusPending' = statusPending \cup
                {r.accounts[i].email : i \in {k \in 1..Len(r.accounts) :
                    /\ r.accounts[k].status # processedAccounts[k].status
                    /\ StatusUpdates(WsCalls(r.emitted, r.accounts, now),
                                     r.accounts[k].email, r.accounts[k].status) = 0}}
    /\ lastOp' = NoOp("tick")
    /\ UNCHANGED <<now, lastData, watcher, updateInterval>>

Tick == TickService /\ UNCHANGED <<fnVars, wsVars, qVars, wVars, rVars, oVars, iVars>>

\* What the events of a load do to the emails the diff stream has announced.
TrackDiffs ==
    /\ announced' = AfterDiffs(announced, emitted')
    /\ known' = IF Clearing(emitted') THEN {} ELSE AfterDiffs(known, emitted')

\* start() under the watcher's view: the first load and its events.
WatchedStart ==
    /\ StartService
    /\ TrackDiffs
    /\ UNCHANGED <<quiet, sinceWrite, burst>>

\* A raw write event on the registry path while the watcher is installed.
Write ==
    /\ watcher
    /\ IF sinceWrite < QuietPolls THEN burst.writes < MaxWrites ELSE TRUE
    /\ quiet' = DebounceOnWrite(quiet)
    /\ sinceWrite' = 0
    /\ burst' = IF sinceWrite < QuietPolls
                THEN [burst EXCEPT !.writes = @ + 1]
                ELSE [writes |-> 1, rebuilds |-> 0]
    /\ emitted' = <<>>
    /\ lastOp' = NoOp("write")
    /\ UNCHANGED <<now, processedAccounts, lastData, watcher, updateInterval, history,
                   statusPending>>
    /\ UNCHANGED <<announced, known>>

\* A poll of the watcher passes without a write and the wait goes on.
Poll ==
    /\ sinceWrite < QuietPolls
    /\ IF quiet = None THEN TRUE ELSE quiet[1] + 1 < QuietPolls
    /\ sinceWrite' = sinceWrite + 1
    /\ quiet' = IF quiet = None THEN None ELSE Some(quiet[1] + 1)
    /\ emitted' = <<>>
    /\ lastOp' = NoOp("poll")
    /\ UNCHANGED <<now, processedAccounts, lastData, watcher, updateInterval, history,
                   statusPending>>
    /\ UNCHANGED <<burst, announced, known>>

\* The wait ends: the watcher emits 'change' and its handler reloads what is
\* at the path by then.
Settle ==
    /\ quiet # None
    /\ quiet[1] + 1 >= QuietPolls
    /\ quiet' = None
    /\ sinceWrite' = IF sinceWrite < QuietPolls THEN sinceWrite + 1 ELSE sinceWrite
    /\ burst' = [burst EXCEPT !.rebuilds = @ + 1]
    /\ \E file \in Files : RunLoad("load", file)
    /\ TrackDiffs
    /\ UNCHANGED <<now, watcher, updateInterval>>

\* start() reads what is at the path.
RegistryStart ==
    /\ StartOn(disk)
    /\ tracked' = TrackedAfterLoad(tracked, processedAccounts')
    /\ UNCHANGED <<disk, signals>>

\* The external writer rewrites the resource; a watcher reports 'change'.
ExternalWrite ==
    /\ disk.kind # "absent"
    /\ disk' \in RegistryFiles \ {AbsentFile}
    /\ signals' = IF watcher THEN signals \cup {"change"} ELSE signals
    /\ UNCHANGED <<svcVars, tracked>>

\* The resource is removed; a watcher reports 'unlink'.
ExternalRemove ==
    /\ disk.kind # "absent"
    /\ disk' = AbsentFile
    /\ signals' = IF watcher THEN signals \cup {"unlink"} ELSE signals
    /\ UNCHANGED <<svcVars, tracked>>

\* The resource is created; a watcher reports 'add'.
ExternalCreate ==
    /\ disk.kind = "absent"
    /\ disk' \in RegistryFiles \ {AbsentFile}
    /\ signals' = IF watcher THEN signals \cup {"add"} ELSE signals
    /\ UNCHANGED <<svcVars, tracked>>

\* The watcher hands an event over: 'change' has the handler that reloads
\* what is at the path by then; no handler is registered for the others.
Dispatch ==
    /\ \E event \in signals :
        /\ signals' = signals \ {event}
        /\ IF event = "change"
           THEN /\ RunLoad("load", disk)
                /\ tracked' = IF disk.kind \in {"absent", "valid"}
                              THEN TrackedAfterLoad(tracked, processedAccounts')
                              ELSE tracked
                /\ UNCHANGED <<now, watcher, updateInterval>>
           ELSE UNCHANGED <<svcVars, tracked>>
    /\ UNCHANGED disk

\* The timer runs.
RegistryTick ==
    /\ TickService
    /\ tracked' = TrackedAfterTick(tracked, emitted')
    /\ UNCHANGED <<disk, signals>>

\* Mutant: the network calls are made synchronously and hold the thread.
Blocking_sync(c) == c.phase \in {"token", "fetch"}

\* Whether the poll cycle holds the thread in a state: never. It makes each
\* network call with `await`, so while a call is outstanding its code is off
\* the stack, and between two awaits it runs as one step.
Blocking(c) == FALSE

\* Registry contents while the poller is running.
PollFiles ==
    {AbsentFile,
     FileOf(<<RawWith("a", Some(1))>>),
     FileOf(<<RawWith("b", Some(2)), RawWith("a", Some(1))>>)}

\* Handlers of the accounts service while the poller is running: each runs
\* when the thread is free.
ReloadDuringPoll ==
    /\ ~Blocking(cycle)
    /\ LoadFrom(PollFiles)

TickDuringPoll ==
    /\ ~Blocking(cycle)
    /\ TickService

\* The server comes up: the accounts service is started, then the poller.
PollerStart ==
    /\ updateInterval
    /\ StartPollingOn({<<"a">>})

vars == <<svcVars, fnVars, wsVars, qVars, wVars, rVars, oVars, iVars>>

\* The service: registry loads, the StatusClock, time.
Init ==
    /\ InitService /\ call = NoCall /\ result = None
    /\ InitBroadcaster /\ InitQuota /\ InitWatcher /\ InitRegistry /\ InitOverlap /\ InitInterceptor

Next == Advance \/ Start \/ LoadAccountsFile \/ Tick

Spec == Init /\ [][Next]_vars

\* The pure functions, each applied once to arguments drawn at the start.
InitPure ==
    /\ InitService /\ InitFn /\ InitBroadcaster /\ InitQuota /\ InitWatcher /\ InitRegistry
    /\ InitOverlap /\ InitInterceptor

NextFn ==
    \/ CallCalculateAccountStatus /\ UNCHANGED <<svcVars, wsVars, qVars, wVars, rVars, oVars, iVars>>
    \/ CallCalculateDiffs /\ UNCHANGED <<svcVars, wsVars, qVars, wVars, rVars, oVars, iVars>>
    \/ CallAggregate /\ UNCHANGED <<svcVars, wsVars, qVars, wVars, rVars, oVars, iVars>>
    \/ CallProcessAccounts /\ UNCHANGED <<svcVars, wsVars, qVars, wVars, rVars, oVars, iVars>>
    \/ CallParseQuotaResponse /\ UNCHANGED <<svcVars, wsVars, qVars, wVars, rVars, oVars, iVars>>

SpecFn == InitPure /\ [][NextFn]_vars

\* The fan-out: the services' events, published through the wiring to
\* subscribers that join, leave and take delivery at their own pace.
NextBroadcast ==
    \/ (\E s \in Subs : Subscribe(s)) /\ UNCHANGED <<svcVars, fnVars, qVars, wVars, rVars, oVars, iVars>>
    \/ (\E s \in Subs : Leave(s)) /\ UNCHANGED <<svcVars, fnVars, qVars, wVars, rVars, oVars, iVars>>
    \/ (\E s \in Subs : Deliver(s)) /\ UNCHANGED <<svcVars, fnVars, qVars, wVars, rVars, oVars, iVars>>
    \/ EmitAccountsLoaded /\ UNCHANGED <<svcVars, fnVars, qVars, wVars, rVars, oVars, iVars>>
    \/ EmitAccountsChanged /\ UNCHANGED <<svcVars, fnVars, qVars, wVars, rVars, oVars, iVars>>
    \/ EmitRateLimitsUpdated /\ UNCHANGED <<svcVars, fnVars, qVars, wVars, rVars, oVars, iVars>>
    \/ EmitRateLimitCleared /\ UNCHANGED <<svcVars, fnVars, qVars, wVars, rVars, oVars, iVars>>
    \/ EmitQuotasUpdated /\ UNCHANGED <<svcVars, fnVars, qVars, wVars, rVars, oVars, iVars>>
    \/ EmitNewCall /\ UNCHANGED <<svcVars, fnVars, qVars, wVars, rVars, oVars, iVars>>

SpecBroadcast == Init /\ [][NextBroadcast]_vars

\* The registry watcher: raw writes, the debounce, and the reloads it triggers.
NextWatcher ==
    \/ WatchedStart /\ UNCHANGED <<fnVars, wsVars, qVars, rVars, oVars, iVars>>
    \/ Write /\ UNCHANGED <<fnVars, wsVars, qVars, rVars, oVars, iVars>>
    \/ Poll /\ UNCHANGED <<fnVars, wsVars, qVars, rVars, oVars, iVars>>
    \/ Settle /\ UNCHANGED <<fnVars, wsVars, qVars, rVars, oVars, iVars>>

SpecWatcher == Init /\ [][NextWatcher]_vars

\* The quota poller: cycles started by the timer and the routes, the answers
\* of the token and quota endpoints, time.
NextQuota ==
    \/ StartPolling /\ UNCHANGED <<svcVars, fnVars, wsVars, wVars, rVars, oVars, iVars>>
    \/ PollTick /\ UNCHANGED <<svcVars, fnVars, wsVars, wVars, rVars, oVars, iVars>>
    \/ QuotaRoute /\ UNCHANGED <<svcVars, fnVars, wsVars, wVars, rVars, oVars, iVars>>
    \/ ForceRefresh /\ UNCHANGED <<svcVars, fnVars, wsVars, wVars, rVars, oVars, iVars>>
    \/ TokenResponds /\ UNCHANGED <<svcVars, fnVars, wsVars, wVars, rVars, oVars, iVars>>
    \/ FetchResponds /\ UNCHANGED <<svcVars, fnVars, wsVars, wVars, rVars, oVars, iVars>>
    \/ Pace /\ UNCHANGED <<svcVars, fnVars, wsVars, wVars, rVars, oVars, iVars>>
    \/ Elapse /\ UNCHANGED <<fnVars, wsVars, wVars, rVars, oVars, iVars>>

SpecQuota == Init /\ [][NextQuota]_vars

\* What the code's scheduling guarantees of a cycle: a quota call is answered
\* or aborted after 15 s, and the pacing timer fires. Nothing bounds the wait
\* for the token endpoint.
QuotaFairness ==
    /\ WF_vars(FetchResponds /\ UNCHANGED <<svcVars, fnVars, wsVars, wVars, rVars, oVars, iVars>>)
    /\ WF_vars(Pace /\ UNCHANGED <<svcVars, fnVars, wsVars, wVars, rVars, oVars, iVars>>)

SpecQuotaFair == Init /\ [][NextQuota]_vars /\ QuotaFairness

\* The accounts service and the quota poller in one process: registry
\* reloads, the StatusClock and one poll cycle, interleaved at its awaits.
NextInterleave ==
    \/ (\E file \in PollFiles : StartOn(file))
            /\ UNCHANGED <<fnVars, wsVars, qVars, wVars, rVars, oVars, iVars>>
    \/ ReloadDuringPoll /\ UNCHANGED <<fnVars, wsVars, qVars, wVars, rVars, oVars, iVars>>
    \/ TickDuringPoll /\ UNCHANGED <<fnVars, wsVars, qVars, wVars, rVars, oVars, iVars>>
    \/ AdvanceService /\ UNCHANGED <<fnVars, wsVars, qVars, wVars, rVars, oVars, iVars>>
    \/ PollerStart /\ UNCHANGED <<svcVars, fnVars, wsVars, wVars, rVars, oVars, iVars>>
    \/ TokenResponds /\ UNCHANGED <<svcVars, fnVars, wsVars, wVars, rVars, oVars, iVars>>
    \/ FetchResponds /\ UNCHANGED <<svcVars, fnVars, wsVars, wVars, rVars, oVars, iVars>>
    \/ Pace /\ UNCHANGED <<svcVars, fnVars, wsVars, wVars, rVars, oVars, iVars>>

SpecInterleave == Init /\ [][NextInterleave]_vars

\* The quota service with every entry point that calls fetchAllQuotas, and
\* up to two of its calls in flight.
NextOverlap ==
    \/ StartPollingAgain /\ UNCHANGED <<svcVars, fnVars, wsVars, wVars, rVars, iVars>>
    \/ StopPolling /\ UNCHANGED <<svcVars, fnVars, wsVars, wVars, rVars, iVars>>
    \/ TimerFires /\ UNCHANGED <<svcVars, fnVars, wsVars, wVars, rVars, iVars>>
    \/ RouteRefreshes /\ UNCHANGED <<svcVars, fnVars, wsVars, wVars, rVars, iVars>>
    \/ ForceRefreshes /\ UNCHANGED <<svcVars, fnVars, wsVars, wVars, rVars, iVars>>
    \/ Resume /\ UNCHANGED <<svcVars, fnVars, wsVars, wVars, rVars, iVars>>
    \/ CycleStep /\ UNCHANGED <<svcVars, fnVars, wsVars, wVars, rVars, iVars>>
    \/ Elapse /\ UNCHANGED <<fnVars, wsVars, wVars, rVars, oVars, iVars>>

SpecOverlap == Init /\ [][NextOverlap]_vars

\* The interceptor: requests start and complete in any order, under any id.
NextInterceptor ==
    \/ OnRequestStart /\ UNCHANGED <<svcVars, fnVars, wsVars, qVars, wVars, rVars, oVars>>
    \/ OnRequestComplete /\ UNCHANGED <<svcVars, fnVars, wsVars, qVars, wVars, rVars, oVars>>

SpecInterceptor == Init /\ [][NextInterceptor]_vars

\* The registry resource, its writer and the service watching it: the
\* resource exists or not when the service starts.
InitDisk ==
    /\ InitService /\ call = NoCall /\ result = None
    /\ InitBroadcaster /\ InitQuota /\ InitWatcher /\ InitOverlap /\ InitInterceptor
    /\ disk \in {AbsentFile, FileOf(<<RawWith("a", Some(1))>>)}
    /\ signals = {}
    /\ tracked = NoLimits

NextRegistry ==
    \/ RegistryStart /\ UNCHANGED <<fnVars, wsVars, qVars, wVars, oVars, iVars>>
    \/ ExternalWrite /\ UNCHANGED <<fnVars, wsVars, qVars, wVars, oVars, iVars>>
    \/ ExternalRemove /\ UNCHANGED <<fnVars, wsVars, qVars, wVars, oVars, iVars>>
    \/ ExternalCreate /\ UNCHANGED <<fnVars, wsVars, qVars, wVars, oVars, iVars>>
    \/ Dispatch /\ UNCHANGED <<fnVars, wsVars, qVars, wVars, oVars, iVars>>
    \/ RegistryTick /\ UNCHANGED <<fnVars, wsVars, qVars, wVars, oVars, iVars>>
    \/ AdvanceService /\ UNCHANGED <<fnVars, wsVars, qVars, wVars, rVars, oVars, iVars>>

SpecRegistry == InitDisk /\ [][NextRegistry]_vars

\* An event the watcher raised is handed over; start() is called when the
\* server comes up.
RegistryFairness ==
    /\ WF_vars(Dispatch /\ UNCHANGED <<fnVars, wsVars, qVars, wVars, oVars, iVars>>)
    /\ WF_vars(RegistryStart /\ UNCHANGED <<fnVars, wsVars, qVars, wVars, oVars, iVars>>)

SpecRegistryFair == InitDisk /\ [][NextRegistry]_vars /\ RegistryFairness

\* The calls made on wsManager during the last handler run. The listeners
\* are attached after getAccountsService() returned, so start()'s load
\* reaches none.
Broadcasts ==
    IF lastOp.op = "start" THEN <<>> ELSE WsCalls(emitted, processedAccounts, now)

\* ------------------------------------------------------------------ claims

StatusDerived(accounts) ==
    \A i \in 1..Len(accounts) : accounts[i].status = calculateAccountStatus(accounts[i])

\* C1: in every reachable state, and in every list a listener reads at the
\* moment an event is emitted, each account's status is the derivation rule
\* applied to its two stored rate-limit infos.
C1_StatusAlwaysDerived ==
    /\ StatusDerived(processedAccounts)
    /\ \A k \in 1..Len(emitted) : StatusDerived(ViewAt(emitted[k], processedAccounts))

Malformed == {"invalid_json", "no_accounts"}

\* C5: a load that fails on malformed content leaves the processed list as it
\* was and emits neither 'accounts_changed' nor 'accounts_loaded'.
C5_MalformedKeepsState ==
    [][(lastOp'.op \in {"start", "load"} /\ lastOp'.kind \in Malformed)
        => /\ processedAccounts' = processedAccounts
           /\ \A k \in 1..Len(emitted') :
                emitted'[k].type \notin {"accounts_changed", "accounts_loaded"}]_vars

\* A malformed load after a successful load and a tick that expired a limit.
C5_Witness ==
    /\ lastOp.op = "load"
    /\ lastOp.kind = "no_accounts"
    /\ Len(processedAccounts) = 2
    /\ \E i \in 1..2 : /\ processedAccounts[i].rateLimits.claude # None
                       /\ processedAccounts[i].rateLimits.claude[1].isExpired
                       /\ history[i]["claude"].cleared = 1

ClearingUpdate == <<[type |-> "accounts_loaded", accounts |-> <<>>]>>

\* C6: a load that finds the resource absent raises no error, leaves the
\* empty list, and, if accounts were held, emits 'accounts_loaded' with the
\* empty list, which the wiring broadcasts as an 'initial' snapshot.
C6_AbsentEmptiesState ==
    (lastOp.op \in {"start", "load"} /\ lastOp.kind = "absent")
        => /\ lastOp.log # "error"
           /\ processedAccounts = <<>>
           /\ lastOp.hadAccounts =>
                /\ emitted = ClearingUpdate
                /\ Len(Broadcasts) = 1
                /\ Broadcasts[1].method = "broadcastNow"
                /\ Broadcasts[1].arg.type = "initial"
                /\ Broadcasts[1].arg.data.accounts = <<>>
                /\ Broadcasts[1].arg.data.stats.totalAccounts = 0

C6_Witness ==
    /\ lastOp.op = "load"
    /\ lastOp.kind = "absent"
    /\ lastOp.hadAccounts
    /\ Len(Broadcasts) = 1

OtherFamily(f) == IF f = "claude" THEN "gemini" ELSE "claude"

SingleStatus(f) == IF f = "claude" THEN "rate_limited_claude" ELSE "rate_limited_gemini"

\* C7: an account loaded with an unexpired reset epoch for one family and none
\* for the other keeps the single-family status until the first tick at or
\* after the epoch; that tick makes it 'available' and emits
\* 'rate_limit_cleared' for it, and no later tick emits it again.
C7_ClearedExactlyOnce ==
    \A i \in 1..Len(processedAccounts) : \A f \in Families :
        LET account == processedAccounts[i]
            info == account.rateLimits[f][1]
        IN  (history[i][f].loadedLimited /\ account.rateLimits[OtherFamily(f)] = None)
            => /\ account.rateLimits[f] # None
               /\ ~info.isExpired =>
                    /\ account.status = SingleStatus(f)
                    /\ history[i][f].cleared = 0
               /\ info.isExpired =>
                    /\ account.status = "available"
                    /\ history[i][f].cleared = 1
               /\ lastOp.op = "tick" => (info.isExpired <=> info.resetTime <= now)

\* A tick after the one that cleared the limit: nothing is emitted again.
C7_Witness ==
    /\ lastOp.op = "tick"
    /\ emitted = <<>>
    /\ \E i \in 1..Len(processedAccounts) :
        /\ history[i]["claude"].loadedLimited
        /\ processedAccounts[i].rateLimits.gemini = None
        /\ processedAccounts[i].rateLimits.claude[1].isExpired
        /\ processedAccounts[i].status = "available"
        /\ history[i]["claude"].cleared = 1

\* C8: no step takes a stored isExpired flag from true to false for the same
\* account, family and reset epoch.
C8_ExpiredIsMonotone ==
    [][\A i \in 1..Len(processedAccounts) : \A j \in 1..Len(processedAccounts') :
        \A f \in Families :
            LET old == processedAccounts[i].rateLimits[f]
                new == processedAccounts'[j].rateLimits[f]
            IN  (/\ processedAccounts[i].email = processedAccounts'[j].email
                 /\ old # None /\ old[1].isExpired
                 /\ new # None /\ ~new[1].isExpired)
                => new[1].resetTime # old[1].resetTime]_vars

\* A reload that changed nothing about an account whose limit had expired.
C8_Witness ==
    /\ lastOp.op = "load"
    /\ lastOp.kind = "valid"
    /\ lastOp.hadAccounts
    /\ Len(emitted) = 1
    /\ \E i \in 1..Len(processedAccounts) :
        /\ processedAccounts[i].rateLimits.gemini # None
        /\ processedAccounts[i].rateLimits.gemini[1].isExpired
        /\ processedAccounts[i].rateLimits.gemini[1].resetTime = now

\* C35: for every account and family with a rate-limit info, timeUntilReset
\* is not negative and isExpired holds exactly when it is 0; and the info the
\* timer would compute from it now is the info the builder would compute now
\* from the same reset epoch.
C35_CountdownConsistent ==
    \A i \in 1..Len(processedAccounts) : \A f \in Families :
        LET limit == processedAccounts[i].rateLimits[f]
        IN  limit # None =>
              /\ limit[1].timeUntilReset >= 0
              /\ limit[1].isExpired <=> limit[1].timeUntilReset = 0
              /\ RateLimitAtTick(limit[1], now) = RateLimitAtLoad(limit[1].resetTime, now)

\* C35's case: after a tick, one limit is expired and another still counts down.
C35_Witness ==
    /\ lastOp.op = "tick"
    /\ \E i, j \in 1..Len(processedAccounts) : \E f, g \in Families :
          /\ processedAccounts[i].rateLimits[f] # None
          /\ processedAccounts[i].rateLimits[f][1].isExpired
          /\ processedAccounts[i].rateLimits[f][1].resetTime = now
          /\ processedAccounts[j].rateLimits[g] # None
          /\ processedAccounts[j].rateLimits[g][1].timeUntilReset = 1

\* Positions in a list of events of those of one type.
EventsOfType(events, type) == {k \in 1..Len(events) : events[k].type = type}

\* An account with the fields set to those the timer may write in `other`.
WithTimerFields(account, other) ==
    [account EXCEPT
        !.status = other.status,
        !.rateLimits = [f \in Families |->
            IF account.rateLimits[f] # None /\ other.rateLimits[f] # None
            THEN Some([account.rateLimits[f][1] EXCEPT
                        !.timeUntilReset = other.rateLimits[f][1].timeUntilReset,
                        !.isExpired = other.rateLimits[f][1].isExpired])
            ELSE account.rateLimits[f]]]

\* C36: a tick keeps the accounts and their order and, in every account,
\* everything but timeUntilReset, isExpired and status; it leaves the content
\* last loaded alone; and it emits 'rate_limits_updated' exactly when a family
\* became expired or a status changed in it.
C36_TickFrame ==
    [][(svcVars' # svcVars /\ lastOp'.op = "tick") =>
        /\ Len(processedAccounts') = Len(processedAccounts)
        /\ \A i \in 1..Len(processedAccounts) :
              processedAccounts'[i] = WithTimerFields(processedAccounts[i], processedAccounts'[i])
        /\ lastData' = lastData
        /\ EventsOfType(emitted', "rate_limits_updated") # {} <=>
              \E i \in 1..Len(processedAccounts) :
                  \/ processedAccounts'[i].status # processedAccounts[i].status
                  \/ \E f \in Families :
                        /\ processedAccounts[i].rateLimits[f] # None
                        /\ ~processedAccounts[i].rateLimits[f][1].isExpired
                        /\ processedAccounts'[i].rateLimits[f][1].isExpired]_vars

\* C36's case: a tick over two accounts expired a limit of one, announced
\* it, and left the other limited.
C36_Witness ==
    /\ lastOp.op = "tick"
    /\ Len(processedAccounts) = 2
    /\ EventsOfType(emitted, "rate_limits_updated") # {}
    /\ \E i, j \in 1..2 :
          /\ processedAccounts[i].status = "available"
          /\ processedAccounts[j].status = "rate_limited_claude"

\* C32: a reload that finds the content of the previous successful load
\* emits no 'accounts_changed', whatever time has passed and whatever ticks
\* have run since that load.
C32_UnchangedReloadIsSilent ==
    [][(/\ lastOp'.op = "load"
        /\ lastOp'.kind = "valid"
        /\ lastData # None
        /\ lastData' = lastData)
        => \A k \in 1..Len(emitted') : emitted'[k].type # "accounts_changed"]_vars

\* C33: a load of a readable registry emits 'accounts_loaded' exactly once,
\* carrying the list just built from the content; it emits 'accounts_changed'
\* at most once, exactly when the diff against the list held before is not
\* empty, and before 'accounts_loaded'; the list is installed when either is
\* emitted, so the snapshot the wiring broadcasts counts the new list.
C33_LoadAnnouncedOnce ==
    [][(/\ svcVars' # svcVars
        /\ lastOp'.op \in {"start", "load"}
        /\ lastOp'.kind = "valid") =>
        LET loadedAt == EventsOfType(emitted', "accounts_loaded")
            changedAt == EventsOfType(emitted', "accounts_changed")
            calls == WsCalls(emitted', processedAccounts', now')
        IN  /\ processedAccounts' = processAccounts(lastData'[1], now')
            /\ Cardinality(loadedAt) = 1
            /\ \A k \in loadedAt : emitted'[k].accounts = processedAccounts'
            /\ Cardinality(changedAt) <= 1
            /\ changedAt # {} <=> calculateDiffs(processedAccounts, processedAccounts') # <<>>
            /\ \A c \in changedAt : \A l \in loadedAt : c < l
            /\ \A k \in 1..Len(emitted') :
                    ViewAt(emitted'[k], processedAccounts') = processedAccounts'
            /\ \A k \in 1..Len(calls) :
                    calls[k].method = "broadcastNow" =>
                        calls[k].arg.data.stats.totalAccounts = Len(processedAccounts')]_vars

\* C33's case: a reload that changed the list held and announced both.
C33_Witness ==
    /\ lastOp.op = "load"
    /\ lastOp.kind = "valid"
    /\ lastOp.hadAccounts
    /\ Len(emitted) = 2
    /\ emitted[1].type = "accounts_changed"
    /\ emitted[2].type = "accounts_loaded"
    /\ emitted[2].accounts # <<>>

\* C22: when a tick of the StatusClock has changed an account's status,
\* subscribers are sent an account update for that email carrying the new
\* status: by the tick itself, or else by the next diff pass (the next load of
\* a readable registry) that still holds the account, whether or not the
\* registry changed for it.
C22_StatusChangeIsSent ==
    [][(lastOp'.op = "load" /\ lastOp'.kind = "valid") =>
        \A e \in statusPending : \A j \in 1..Len(processedAccounts') :
            processedAccounts'[j].email = e =>
                StatusUpdates(WsCalls(emitted', processedAccounts', now),
                              e, processedAccounts'[j].status) >= 1]_vars

\* ------------------------------------------------- claims on pure functions

\* The effective state of one family's info.
Tri(opt) == IF opt = None THEN "absent" ELSE IF opt[1].isExpired THEN "expired" ELSE "active"

\* The precedence table of the status derivation rule.
ExpectedStatus(c, g) ==
    IF c = "active" /\ g = "active" THEN "rate_limited_all"
    ELSE IF c = "active" THEN "rate_limited_claude"
    ELSE IF g = "active" THEN "rate_limited_gemini"
    ELSE "available"

\* C2: calculateAccountStatus maps each of the 9 combinations of the two
\* families' infos (absent, expired, active) to the status of the precedence
\* table, whatever else the account holds.
C2_StatusTable ==
    (call.fn = "calculateAccountStatus" /\ result # None)
        => /\ result[1] \in Statuses
           /\ result[1] = ExpectedStatus(Tri(call.account.rateLimits.claude),
                                         Tri(call.account.rateLimits.gemini))

\* An expired claude info with an active gemini one, on an account whose
\* stored status says otherwise.
C2_Witness ==
    /\ call.fn = "calculateAccountStatus"
    /\ result = Some("rate_limited_gemini")
    /\ Tri(call.account.rateLimits.claude) = "expired"
    /\ call.account.status = "rate_limited_all"

\* Applying diff operations to a list: add inserts the account (at the end),
\* update replaces the account of that email by the carried state, remove
\* deletes it.
RECURSIVE ApplyDiffs(_, _)
ApplyDiffs(diffs, list) ==
    IF diffs = <<>> THEN list
    ELSE LET d == Head(diffs)
             next == IF d.op = "add" THEN Append(list, d.account)
                     ELSE IF d.op = "update"
                     THEN [i \in 1..Len(list) |->
                            IF list[i].email = d.email THEN d.changes ELSE list[i]]
                     ELSE SelectSeq(list, LAMBDA a : a.email # d.email)
         IN  ApplyDiffs(Tail(diffs), next)

UniqueEmails(list) ==
    \A i, j \in 1..Len(list) : list[i].email = list[j].email => i = j

SameAccounts(x, y) == Len(x) = Len(y) /\ Range(x) = Range(y)

\* C3, as claimed: applying calculateDiffs(previous, current) to previous
\* reproduces current exactly, for all ordered lists.
C3_RoundTripExact ==
    (call.fn = "calculateDiffs" /\ result # None)
        => ApplyDiffs(result[1], call.previous) = call.current

\* C3, amended: when neither list holds an email twice, applying the
\* operations to previous yields exactly the accounts of current (the same
\* emails, each with the state current has for it), in some order.
C3_RoundTripUpToOrder ==
    (/\ call.fn = "calculateDiffs" /\ result # None
     /\ UniqueEmails(call.previous) /\ UniqueEmails(call.current))
        => SameAccounts(ApplyDiffs(result[1], call.previous), call.current)

\* One account updated in its nested rate-limit info only, one removed, one added.
C3_Witness ==
    /\ call.fn = "calculateDiffs" /\ result # None
    /\ UniqueEmails(call.previous) /\ UniqueEmails(call.current)
    /\ Len(call.previous) = 2 /\ Len(call.current) = 2
    /\ {result[1][k].op : k \in 1..Len(result[1])} = {"add", "update", "remove"}
    /\ \E k \in 1..Len(result[1]) :
        /\ result[1][k].op = "update"
        /\ result[1][k].changes.status = MapGet(call.previous, result[1][k].email).status

\* C4: calculateDiffs(S, S) is the empty list for every list S.
C4_DiffIdempotent ==
    (call.fn = "calculateDiffs" /\ result # None /\ call.previous = call.current)
        => result[1] = <<>>

\* A list holding one email twice, in two different states, diffed with itself.
C4_Witness ==
    /\ call.fn = "calculateDiffs" /\ result = Some(<<>>)
    /\ call.previous = call.current
    /\ Len(call.current) = 2
    /\ call.current[1].email = call.current[2].email
    /\ call.current[1] # call.current[2]

\* The identifiers of a list, and the state a list holds for one (the one its
\* last record of that identifier carries).
Identifiers(list) == {list[i].email : i \in 1..Len(list)}

StateOf(list, email) ==
    LET at == {i \in 1..Len(list) : list[i].email = email}
    IN  list[CHOOSE i \in at : \A j \in at : j <= i]

\* C27: calculateDiffs(previous, current) emits exactly one add, carrying the
\* account, per identifier only in current; one update, carrying the new full
\* state, per identifier in both whose states differ in any field, nested
\* rate-limit infos included; one remove per identifier only in previous; and
\* nothing for an identifier whose states are equal, wherever the identifier
\* stands in either list. No identifier is in two emitted events.
C27_DiffByIdentifier ==
    (call.fn = "calculateDiffs" /\ result # None) =>
        LET prev == Identifiers(call.previous)
            curr == Identifiers(call.current)
            expected ==
                {[op |-> "add", email |-> e, account |-> StateOf(call.current, e)] :
                    e \in curr \ prev}
                \cup {[op |-> "update", email |-> e, changes |-> StateOf(call.current, e)] :
                        e \in {x \in curr \cap prev :
                                 StateOf(call.previous, x) # StateOf(call.current, x)}}
                \cup {[op |-> "remove", email |-> e] : e \in prev \ curr}
        IN  /\ Range(result[1]) = expected
            /\ \A k, l \in 1..Len(result[1]) :
                    result[1][k].email = result[1][l].email => k = l

\* C27's case: the two accounts of previous come back in the other order, one
\* as it was and one changed in a nested rate-limit info only, and the only
\* event is the update of the changed one.
C27_Witness ==
    /\ call.fn = "calculateDiffs" /\ result # None
    /\ Len(call.previous) = 2 /\ Len(call.current) = 2
    /\ call.current[2] = call.previous[1]
    /\ call.current[1].email = call.previous[2].email
    /\ call.current[1].email # call.current[2].email
    /\ call.current[1].status = call.previous[2].status
    /\ result[1] = <<[op |-> "update", email |-> call.current[1].email,
                      changes |-> call.current[1]]>>


\* ------------------------------------------------- claims about the fan-out

\* Everything sent to a subscriber since it joined, delivered or waiting.
Stream(s) == received[s] \o queue[s]

\* C9: a subscriber that joins while events are being published is sent the
\* snapshot of the state as of its join first, and after it exactly the events
\* published after the join, each once and none missing.
C9_SnapshotThenLaterEvents ==
    \A s \in Subs :
        /\ s \in subscribers =>
             /\ Stream(s)[1] = Snapshot(joinedAt[s], Stream(s)[1].timestamp)
             /\ Stream(s)[Len(Stream(s))].seq = published
        /\ \A k \in 1..Len(received[s]) :
             /\ (k = 1) <=> (received[s][k].seq = joinedAt[s])
             /\ k > 1 => received[s][k].seq > joinedAt[s]
        /\ \A k \in 2..Len(Stream(s)) :
             /\ Stream(s)[k].seq = Stream(s)[k - 1].seq + 1
             /\ Stream(s)[k].type # "initial" \/ Stream(s)[k].data # Stream(s)[1].data

\* C9's case: a subscriber that joined after events had been published has
\* been delivered its snapshot and at least one later event.
C9_Witness ==
    \E s \in Subs :
        /\ s \in subscribers
        /\ joinedAt[s] >= 1
        /\ Len(received[s]) >= 2
        /\ published > joinedAt[s]

\* C10: each subscriber is delivered its messages in the order they were
\* published; a subscriber that takes no delivery keeps neither the others
\* from being delivered nor the services from publishing.
C10_FifoAndIsolation ==
    /\ \A s \in Subs : \A k, l \in 1..Len(received[s]) :
         k < l => received[s][k].seq < received[s][l].seq
    /\ \A s \in subscribers : queue[s] # <<>> => ENABLED Deliver(s)
    /\ published < MaxEvents =>
         /\ ENABLED EmitAccountsLoaded
         /\ ENABLED EmitAccountsChanged
         /\ ENABLED EmitRateLimitsUpdated
         /\ ENABLED EmitRateLimitCleared
         /\ ENABLED EmitQuotasUpdated

\* C10's case: one subscriber has taken no delivery and its buffer is full,
\* while another has been delivered its snapshot and two events after it.
C10_Witness ==
    \E s, u \in subscribers :
        /\ received[s] = <<>>
        /\ Len(queue[s]) = MaxQueue
        /\ Len(received[u]) >= 3


\* C11: a publish reaches every registered subscriber whose delivery does
\* not fail; one whose delivery fails is removed, is sent neither that event
\* nor any later one, and the publish completes all the same.
C11_FailedSubscriberRemoved ==
    [][/\ published' = published + 1 =>
            \A s \in subscribers :
                \/ /\ s \in subscribers'
                   /\ Len(queue'[s]) > Len(queue[s])
                   /\ \A k \in 1..Len(queue'[s]) :
                        k > Len(queue[s]) <=> queue'[s][k].seq = published'
                \/ /\ s \notin subscribers'
                   /\ s \in failed'
       /\ \A s \in failed' :
            /\ s \notin subscribers'
            /\ queue'[s] = <<>>
            /\ received'[s] = received[s]]_vars

\* C11's case: a subscriber that had taken its snapshot was removed by a
\* failed delivery, and the event it missed reached another subscriber.
C11_Witness ==
    \E s \in failed, u \in subscribers :
        /\ received[s] # <<>>
        /\ joinedAt[u] <= joinedAt[s]
        /\ received[s][Len(received[s])].seq < published
        /\ Stream(u)[Len(Stream(u))].seq = published


\* --------------------------------------------- claims about the aggregation

\* The models of a family in response order, by the names the filters accept.
FamilyModels(models, f) ==
    SelectSeq(models, LAMBDA m :
        IF f = "claude"
        THEN m.modelName \in {"claude-sonnet", "Anthropic-opus", "gemini-claude-mix"}
        ELSE m.modelName \in {"Gemini-Pro", "gemini-claude-mix"})

\* The position of the first model of `list` holding the least percent.
FirstMinimum(list) ==
    CHOOSE k \in 1..Len(list) :
        /\ \A j \in 1..Len(list) : list[k].remainingPercent <= list[j].remainingPercent
        /\ \A j \in 1..(k - 1) : list[j].remainingPercent > list[k].remainingPercent

\* C17: a family with models gets the least remainingPercent among them and
\* the reset time of the first model (in response order) that has it; a
\* family without models gets null for both.
C17_FamilyMinimum ==
    (call.fn = "aggregate" /\ result # None) =>
        LET q == result[1]
            c == FamilyModels(call.models, "claude")
            g == FamilyModels(call.models, "gemini")
        IN  /\ IF c = <<>>
               THEN q.claudeQuotaPercent = None /\ q.claudeResetTime = None
               ELSE /\ q.claudeQuotaPercent = Some(c[FirstMinimum(c)].remainingPercent)
                    /\ q.claudeResetTime = c[FirstMinimum(c)].resetTimeMs
            /\ IF g = <<>>
               THEN q.geminiQuotaPercent = None /\ q.geminiResetTime = None
               ELSE /\ q.geminiQuotaPercent = Some(g[FirstMinimum(g)].remainingPercent)
                    /\ q.geminiResetTime = g[FirstMinimum(g)].resetTimeMs

\* C17's case: two models of one family tie on the least percent with
\* different reset times, and the other family has no model.
C17_Witness ==
    /\ call.fn = "aggregate"
    /\ result # None
    /\ Len(result[1].claudeModels) = 2
    /\ result[1].claudeModels[1].remainingPercent = result[1].claudeModels[2].remainingPercent
    /\ result[1].claudeModels[1].resetTimeMs # result[1].claudeModels[2].resetTimeMs
    /\ result[1].claudeResetTime = result[1].claudeModels[1].resetTimeMs
    /\ result[1].geminiQuotaPercent = None

\* The family a name belongs to by the spelling of the name alone.
NamedClaude(name) == name \in {"claude-sonnet", "Anthropic-opus", "gemini-claude-mix"}

NamedGemini(name) == name \in {"Gemini-Pro", "gemini-claude-mix"}

\* C29: every parsed entry is in exactly one of family A (its name holds
\* 'claude' or 'anthropic', in any case), family B (it holds 'gemini') or
\* neither; all entries stay in the models list, and no entry is counted in
\* both families' aggregates.
C29_ExactlyOneFamily ==
    (call.fn = "aggregate" /\ result # None) =>
        LET q == result[1]
        IN  /\ q.models = call.models
            /\ q.claudeModels = SelectSeq(call.models, LAMBDA m : NamedClaude(m.modelName))
            /\ q.geminiModels = SelectSeq(call.models, LAMBDA m : NamedGemini(m.modelName))
            /\ Range(q.claudeModels) \cap Range(q.geminiModels) = {}

\* The entries of a response that carry quotaInfo, in response order.
WithQuotaInfo(data) ==
    IF data.models = None THEN <<>>
    ELSE SelectSeq(data.models[1], LAMBDA e : e.modelData.quotaInfo # None)

\* C30: parseQuotaResponse returns one entry per response model that has
\* quotaInfo, in response order, and none for a model without it; a missing
\* remainingFraction becomes 1.0 with remainingPercent 100, a given one is
\* kept, and remainingPercent is remainingFraction times 100 rounded to the
\* nearest integer.
C30_ParsedEntries ==
    (call.fn = "parseQuotaResponse" /\ result # None) =>
        LET given == WithQuotaInfo(call.data)
            out == result[1]
        IN  /\ Len(out) = Len(given)
            /\ \A k \in 1..Len(out) :
                 LET fraction == given[k].modelData.quotaInfo[1].remainingFraction
                 IN  /\ out[k].modelName = given[k].modelName
                     /\ fraction = None =>
                          (out[k].remainingFraction = 1000 /\ out[k].remainingPercent = 100)
                     /\ fraction # None => out[k].remainingFraction = fraction[1]
                     /\ out[k].remainingPercent \in 0..100
                     /\ 10 * out[k].remainingPercent - 5 <= out[k].remainingFraction
                     /\ out[k].remainingFraction < 10 * out[k].remainingPercent + 5

\* C30's case: of two response models one has no quotaInfo and is left out,
\* the other has quotaInfo without a remainingFraction and is reported full.
C30_Witness ==
    /\ call.fn = "parseQuotaResponse"
    /\ result # None
    /\ call.data.models # None
    /\ Len(call.data.models[1]) = 2
    /\ call.data.models[1][1].modelData.quotaInfo = None
    /\ call.data.models[1][2].modelData.quotaInfo # None
    /\ call.data.models[1][2].modelData.quotaInfo[1].remainingFraction = None
    /\ Len(result[1]) = 1
    /\ result[1][1].modelName = call.data.models[1][2].modelName
    /\ result[1][1].remainingPercent = 100


\* ------------------------------------------- claims about the active flags

\* C18: the account at 0-based position i is active iff i is the global
\* active index, and active for a family iff i is that family's override or,
\* without one, the global index; so without overrides the three flags of an
\* account agree, and no flag is set on two accounts.
C18_ActiveFlags ==
    (call.fn = "processAccounts" /\ result # None) =>
        LET d == call.data
            out == result[1]
            effective(f) == IF d.activeIndexByFamily[f] = None
                            THEN d.activeIndex[1] ELSE d.activeIndexByFamily[f][1]
        IN  /\ Len(out) = Len(d.accounts)
            /\ \A k \in 1..Len(out) :
                 /\ out[k].isActive <=> (k - 1 = d.activeIndex[1])
                 /\ out[k].activeForClaude <=> (k - 1 = effective("claude"))
                 /\ out[k].activeForGemini <=> (k - 1 = effective("gemini"))
                 /\ d.activeIndexByFamily = [claude |-> None, gemini |-> None]
                      => /\ out[k].activeForClaude = out[k].isActive
                         /\ out[k].activeForGemini = out[k].isActive
            /\ \A k, l \in 1..Len(out) :
                 /\ (out[k].isActive /\ out[l].isActive) => k = l
                 /\ (out[k].activeForClaude /\ out[l].activeForClaude) => k = l
                 /\ (out[k].activeForGemini /\ out[l].activeForGemini) => k = l

\* C18's case: two accounts, global index 1, claude overridden to index 0
\* and gemini not overridden.
C18_Witness ==
    /\ call.fn = "processAccounts"
    /\ result # None
    /\ Len(result[1]) = 2
    /\ call.data.activeIndex = Some(1)
    /\ call.data.activeIndexByFamily = [claude |-> Some(0), gemini |-> None]
    /\ result[1][1].activeForClaude /\ ~result[1][1].isActive
    /\ result[1][2].activeForGemini /\ result[1][2].isActive


\* ------------------------------------------------ claims about the poller

\* The outcome a step records for the account the cycle was working on, if
\* the step records one (a step records at most one).
StepOutcome ==
    IF cycle.phase \in {"token", "fetch"} /\ Len(cycle'.outcomes) = Len(cycle.outcomes) + 1
    THEN Some(cycle'.outcomes[Len(cycle'.outcomes)].kind)
    ELSE None

\* C12: when the token stage or the fetch stage fails for an account (or its
\* processing throws), the cache is left as it was; what is cached for an
\* email is always the record of a successful fetch.
C12_FailureKeepsCache ==
    [][/\ (StepOutcome # None /\ StepOutcome # Some("ok")) =>
            /\ cacheAccounts' = cacheAccounts
            /\ Len(cycle'.results) = Len(cycle.results) + 1
            /\ cycle'.results[Len(cycle'.results)].fetchError # None
       /\ \A e \in Emails :
            cacheAccounts'[e] # None =>
                /\ cacheAccounts'[e][1].fetchError = None
                /\ cacheAccounts'[e][1].email = e
                /\ cacheAccounts'[e][1] =
                     AggregateQuota(e, cacheAccounts'[e][1].lastFetched,
                                    cacheAccounts'[e][1].models)]_vars

\* C12's case: a fetch for "a" succeeded in an earlier cycle, and in the
\* cycle at hand both the token stage (for "a") and the fetch stage (for "b")
\* have failed while the record of "a" is still cached.
C12_Witness ==
    /\ cacheAccounts["a"] # None
    /\ cacheAccounts["a"][1].lastFetched < cycle.startedAt
    /\ Len(cycle.outcomes) = 2
    /\ cycle.accounts = <<"a", "b">>
    /\ cycle.outcomes[1].kind = "token_failed"
    /\ cycle.outcomes[2].kind = "fetch_failed"

\* C13: a failure for one account does not end the cycle: a finished cycle
\* holds one result per input account, in input order, with fetchError set on
\* exactly the accounts whose fetch failed; a cycle in flight has one result
\* per account it is done with.
C13_OneResultPerAccount ==
    /\ Len(cycle.results) = Len(cycle.outcomes)
    /\ cycle.phase = "done" => Len(cycle.results) = Len(cycle.accounts)
    /\ cycle.phase \in {"token", "fetch"} => Len(cycle.results) = cycle.idx - 1
    /\ cycle.phase = "pace" => Len(cycle.results) = cycle.idx
    /\ \A k \in 1..Len(cycle.results) :
         /\ cycle.results[k].email = cycle.accounts[k]
         /\ (cycle.results[k].fetchError # None) <=> (cycle.outcomes[k].kind # "ok")

\* C13's case: a finished cycle over two accounts whose first account failed
\* with an exception and whose second was fetched.
C13_Witness ==
    /\ cycle.phase = "done"
    /\ Len(cycle.accounts) = 2
    /\ cycle.outcomes[1].kind = "exception"
    /\ cycle.outcomes[2].kind = "ok"
    /\ cycle.results[2].fetchError = None

\* C15: the cache is stale exactly when no cycle without a failed fetch has
\* run, or more than the polling interval has passed since the last such
\* cycle started.
C15_StaleSinceSuccessfulStart ==
    isCacheStale(lastFullFetch, DateNow)
        <=> (lastSuccessStart = 0 \/ DateNow - lastSuccessStart > PollingMs)

\* The calls of one fetch stage: the endpoints in order from the first, each
\* once, every call but the last one a failure.
InPreferenceOrder(calls) ==
    /\ Len(calls) <= NumEndpoints
    /\ \A k \in 1..Len(calls) :
         /\ calls[k].endpoint = k
         /\ k < Len(calls) => ~calls[k].ok

\* C16: the fetch stage calls the endpoints in preference order, each at most
\* once, the next one iff all before it failed; it ends with the first
\* success, and fails iff every endpoint failed.
C16_EndpointsInOrder ==
    /\ InPreferenceOrder(cycle.calls)
    /\ cycle.phase = "fetch" =>
         /\ Len(cycle.calls) = cycle.endpoint - 1
         /\ \A k \in 1..Len(cycle.calls) : ~cycle.calls[k].ok
    /\ \A k \in 1..Len(cycle.outcomes) :
         LET o == cycle.outcomes[k]
         IN  /\ InPreferenceOrder(o.calls)
             /\ o.kind = "token_failed" => o.calls = <<>>
             /\ o.kind \in {"ok", "exception"} =>
                  (o.calls # <<>> /\ o.calls[Len(o.calls)].ok)
             /\ o.kind = "fetch_failed" <=>
                  (Len(o.calls) = NumEndpoints /\ \A j \in 1..Len(o.calls) : ~o.calls[j].ok)

\* C16's case: one account was served by the second endpoint after the first
\* failed, another found every endpoint failing.
C16_Witness ==
    \E k, l \in 1..Len(cycle.outcomes) :
        /\ cycle.outcomes[k].kind = "ok"
        /\ Len(cycle.outcomes[k].calls) = 2
        /\ cycle.outcomes[l].kind = "fetch_failed"

\* The step starts the token stage of an account (of a new cycle, or the next
\* account of the cycle in flight).
StageStarts ==
    /\ cycle'.phase \in {"token", "fetch"}
    /\ cycle.phase \in {"idle", "done", "pace"} \/ cycle'.idx # cycle.idx

C26_CachedRecordHoldsError ==
    cycle.phase = "done" =>
        \A k \in 1..Len(cycle.outcomes) :
            (/\ cycle.outcomes[k].kind \in {"token_failed", "fetch_failed"}
             /\ \A l \in (k + 1)..Len(cycle.accounts) : cycle.accounts[l] # cycle.accounts[k])
                => /\ cacheAccounts[cycle.accounts[k]] # None
                   /\ cacheAccounts[cycle.accounts[k]][1].fetchError
                        = cycle.results[k].fetchError

\* A cache entry that is the whole result of one successful fetch for `email`.
CompleteRecord(email, quota) ==
    /\ quota.email = email
    /\ quota.fetchError = None
    /\ quota = AggregateQuota(email, quota.lastFetched, quota.models)

\* C34: every cache entry is the whole result of one successful fetch for its
\* own key; an entry changes only by being set to the result of a successful
\* fetch for that key, and no step removes one, so the set of cached keys
\* never shrinks.
C34_EntriesWholeAndKept ==
    [][\A e \in Emails :
        /\ cacheAccounts'[e] # None => CompleteRecord(e, cacheAccounts'[e][1])
        /\ cacheAccounts[e] # None => cacheAccounts'[e] # None
        /\ cacheAccounts'[e] # cacheAccounts[e] =>
              /\ InFlight(cycle) /\ Current(cycle) = e
              /\ Len(cycle'.results) = Len(cycle.results) + 1
              /\ cycle'.outcomes[Len(cycle'.outcomes)].kind = "ok"
              /\ cacheAccounts'[e] = Some(cycle'.results[Len(cycle'.results)])]_vars

\* C34's case: both accounts are cached, and a later cycle over one of them
\* alone has ended with its fetch failed.
C34_Witness ==
    /\ cacheAccounts["a"] # None
    /\ cacheAccounts["b"] # None
    /\ cycle.phase = "done"
    /\ cycle.accounts = <<"b">>
    /\ cycle.outcomes[1].kind = "fetch_failed"

\* C14: every poll cycle that was started eventually completes (records
\* lastFullFetch and emits 'quotas_updated'), whatever the endpoints do.
C14_CycleCompletes ==
    (cycle.phase \in {"token", "fetch", "pace"}) ~> (cycle.phase = "done")


\* ------------------------------------------------ claims about the watcher

\* C19: the raw writes of one burst (each less than the quiet period after
\* the one before) trigger one rebuild, after they have settled, and none
\* while they are still coming.
C19_OneRebuildPerBurst ==
    /\ burst.rebuilds <= 1
    /\ quiet # None => burst.rebuilds = 0
    /\ (quiet = None /\ burst.writes > 0) => burst.rebuilds = 1

\* C19's case: a burst of three writes has settled and loadAccountsFile has
\* run for it.
C19_Witness ==
    /\ burst.writes = 3
    /\ burst.rebuilds = 1
    /\ quiet = None
    /\ lastOp.op = "load"

\* The add/update/remove events of a step are well-formed for a consumer
\* holding the emails S: update and remove only for an email it holds, add
\* only for one it does not, and one event per email.
WellFormedFor(S) ==
    \A k \in 1..Len(emitted') :
        emitted'[k].type = "accounts_changed" =>
            LET diffs == emitted'[k].diffs
            IN  \A j \in 1..Len(diffs) :
                    /\ diffs[j].op \in {"update", "remove"} => diffs[j].email \in S
                    /\ diffs[j].op = "add" => diffs[j].email \notin S
                    /\ \A l \in 1..Len(diffs) : diffs[l].email = diffs[j].email => l = j

\* C20 as stated: across any loads, update and remove come only for an email
\* added earlier with no remove since, and add only for an email never added
\* or whose latest event is a remove.
C20_CausalPerIdentifier == [][WellFormedFor(announced)]_vars

\* C20, amended: the same, where a clearing update ('accounts_loaded' with no
\* account, as a missing registry produces) counts as a remove of every email.
C20_CausalSinceClearing == [][WellFormedFor(known)]_vars

\* C20's case: a clearing update dropped an email without a remove, and the
\* load at hand, of a readable registry, has emitted an add.
C20_Witness ==
    /\ lastOp.op = "load"
    /\ lastOp.kind = "valid"
    /\ DiffEmailsOf(emitted, {"add"}) # {}
    /\ known # announced


\* ------------------------------------- claims about the registry resource

\* C23: a rate limit that was loaded unexpired and is held since (its account
\* listed with the same reset epoch by every load) has 'rate_limit_cleared'
\* emitted for its account and family exactly once when its epoch passes: by
\* the first run of the timer at or after the epoch, whatever reloads came
\* before that run, and never again.
C23_ClearedOncePerLimit ==
    \A e \in Emails : \A f \in Families :
        tracked[e][f] # None =>
            /\ tracked[e][f][1].cleared <= 1
            /\ (lastOp.op = "tick" /\ tracked[e][f][1].resetTime <= now)
                    => tracked[e][f][1].cleared = 1

\* C24: when the resource is removed while the service holds accounts, the
\* service eventually holds none and has emitted the clearing update (unless
\* the resource is created again before that).
C24_RemovalObserved ==
    (updateInterval /\ disk.kind = "absent" /\ processedAccounts # <<>>)
        ~> \/ processedAccounts = <<>> /\ emitted = ClearingUpdate
           \/ disk.kind # "absent"

\* C25: when the resource was absent at start() and is created later with
\* accounts in it, the service eventually loads them and emits
\* 'accounts_loaded' with them (unless the resource is removed again or
\* emptied before that).
C25_LateCreationLoaded ==
    (updateInterval /\ ~watcher /\ disk.kind = "valid" /\ disk.data.accounts # <<>>)
        ~> \/ /\ processedAccounts # <<>>
              /\ \E k \in 1..Len(emitted) :
                   emitted[k].type = "accounts_loaded" /\ emitted[k].accounts # <<>>
           \/ disk.kind # "valid"
           \/ disk.data.accounts = <<>>


\* ------------------------------- claims about the poller and the service

NewestResultKept == \A e \in Emails : writer[e] = newest[e]

\* C31: at most one call of fetchAllQuotas is in flight at any time, whichever
\* entry point made it; and once no call is in flight, each cache entry is the
\* one set by the most recently started cycle that set it.
C31_CyclesNeverOverlap ==
    /\ ~(InFlight(cycle) /\ InFlight(parked.c))
    /\ (~InFlight(cycle) /\ ~InFlight(parked.c)) => NewestResultKept


\* C38: at most one polling timer is armed, and pollingInterval is set exactly
\* when one is; startPolling leaves one timer armed and makes one call of
\* fetchAllQuotas; while no timer is armed (after stopPolling) no timer tick
\* can run; and a timer tick that finds no accounts starts no cycle and
\* leaves the cache and lastFullFetch as they were.
C38_OneTimerArmed ==
    [][/\ timers' <= 1
       /\ pollingInterval' <=> timers' = 1
       /\ StartPollingAgain => (timers' = 1 /\ started' = started + 1)
       /\ ~pollingInterval => ~ENABLED TimerFires
       /\ (TimerFires /\ ~entry'.fetches) =>
            UNCHANGED <<cacheAccounts, lastFullFetch, cycle, parked, started>>]_vars

\* C38's case: startPolling made the only call of fetchAllQuotas so far and
\* its cycle has finished, and the timer it armed has then fired on an empty
\* account list.
C38_Witness ==
    /\ entry = [op |-> "timer", fetches |-> FALSE]
    /\ timers = 1
    /\ started = 1
    /\ cycle.phase = "done"


\* The account at the global active index of the content last loaded, if the
\* index falls inside the list.
AtActiveIndex ==
    IF lastData = None THEN None
    ELSE IF lastData[1].activeIndex = None THEN None
    ELSE IF lastData[1].activeIndex[1] + 1 \in 1..Len(processedAccounts)
    THEN Some(processedAccounts[lastData[1].activeIndex[1] + 1].email)
    ELSE None

\* C37: getStats() always reports totalAccounts = availableAccounts +
\* rateLimitedAccounts, availableAccounts as the number of accounts whose
\* status is 'available', and activeAccount as the email of the account at
\* the global active index, or null when there is none.
C37_StatsConsistent ==
    LET stats == getStats(processedAccounts, now)
    IN  /\ stats.totalAccounts = stats.availableAccounts + stats.rateLimitedAccounts
        /\ stats.totalAccounts = Len(processedAccounts)
        /\ stats.availableAccounts =
              Cardinality({i \in 1..Len(processedAccounts) :
                              processedAccounts[i].status = "available"})
        /\ stats.activeAccount = AtActiveIndex

\* C37's case: two accounts, the second one active and available, the first
\* one rate-limited.
C37_Witness ==
    /\ Len(processedAccounts) = 2
    /\ processedAccounts[2].isActive
    /\ processedAccounts[2].status = "available"
    /\ processedAccounts[1].status = "rate_limited_claude"
    /\ getStats(processedAccounts, now).activeAccount = Some("a")


\* ------------------------------------------------ claims about the interceptor

\* The status the claim names for a response.
ExpectedCallStatus(response) ==
    IF response.success THEN "success"
    ELSE IF response.httpStatus = Some(429) THEN "rate_limited"
    ELSE "error"

\* What a call of onRequestComplete does when it counts as `handled`: one
\* row logged with the status the response calls for, one 'new_call'
\* broadcast, the id no longer tracked; and otherwise nothing at all.
CompletionLogsOnce(handled) ==
    LET requestId == completion'.requestId
    IN  IF handled
        THEN /\ Len(apiCalls') = Len(apiCalls) + 1
             /\ apiCalls'[Len(apiCalls')].status = ExpectedCallStatus(completion'.response)
             /\ Len(newCalls') = Len(newCalls) + 1
             /\ newCalls'[Len(newCalls')].arg.type = "new_call"
             /\ newCalls'[Len(newCalls')].arg.data.call.status =
                    ExpectedCallStatus(completion'.response)
             /\ activeRequests'[requestId] = None
             /\ \A r \in RequestIds \ {requestId} : activeRequests'[r] = activeRequests[r]
        ELSE UNCHANGED <<activeRequests, apiCalls, accountStatus, newCalls>>

====
